---------------------------- MODULE Spec2Model ----------------------------
(***************************************************************************)
(* GraphRAG service (G-R-eynolds/Smart-Assistant): the SQLite graph store  *)
(* written by GraphRAGService.ingest_document / _upsert_graph_full, read   *)
(* by hybrid_retrieve and shortest_path, the artifact import of            *)
(* scripts/import_graphrag_artifacts.py and the batch index orchestrator   *)
(* of scripts/run_graphrag_index.py.                                       *)
(*                                                                         *)
(* Texts are sequences of lines, a line is a sequence of words of a small  *)
(* vocabulary plus its length in characters.  Every regular expression of  *)
(* the source is modelled by the set of vocabulary words it matches.       *)
(***************************************************************************)
EXTENDS Integers, Sequences, FiniteSets, TLC

VARIABLES
    nodes,        \* graphrag_nodes rows (GraphNode)
    edges,        \* graphrag_edges rows (GraphEdge)
    memberships,  \* graphrag_cluster_memberships rows
    summaries,    \* graphrag_cluster_summaries rows
    ingestLog,    \* graphrag_ingest_log rows (IngestLog)
    qdrant,       \* points of the external vector index: node id -> payload namespace
    subs,         \* smart_assistant._graphrag_stream_subs: one queue per subscriber
    uuidNext,     \* number of uuid4 values drawn so far
    calls,        \* the service calls made so far, each with its response
    settings,     \* app.core.config.settings: the optional backends configured
    runs,         \* orchestrate() invocations: locals and position of each
    lockPath,     \* inode linked at graphrag_artifacts/.graphrag_index.lock (0: none)
    flock,        \* the lock-file inodes on which an exclusive flock is held
    inodeNext,    \* number of lock-file inodes created so far
    runDirs,      \* run-<ts> directories, each with its marker and artifact files
    latest,       \* target of the graphrag_artifacts/latest symlink (0: none)
    clock,        \* the UTC second used for run-<ts> names
    sessions,     \* ingest_document calls in flight: the open transaction of each
    clusterCache, \* ClusterService._cache: the ClusterResult kept per namespace
    lastCounts,   \* ClusterService._last_counts: node count at the last background recompute
    now,          \* time.time(), in seconds
    clusterCalls, \* the ClusterService calls made so far, each with its result
    inflight,     \* ClusterService._recompute_inflight, per namespace
    tasks,        \* ClusterService coroutines suspended at an await
    summaryTokens, \* ClusterService._summary_tokens_used, per namespace
    summaryWindow, \* ClusterService._summary_calls_window, per namespace
    snapshots,    \* graphrag_snapshots rows (GraphSnapshot)
    summaryLog,   \* what summarize_clusters did for each requested cluster id, in order
    streamRequests \* GET /graphrag/stream requests answered so far

gvars == <<nodes, edges, memberships, summaries, ingestLog, qdrant, subs, uuidNext, calls, settings>>
ovars == <<runs, lockPath, flock, inodeNext, runDirs, latest, clock>>
zvars == <<inflight, tasks, summaryTokens, summaryWindow, snapshots, summaryLog>>
kvars == <<clusterCache, lastCounts, now, clusterCalls, zvars, streamRequests>>
xvars == <<sessions, clusterCache, lastCounts, now, clusterCalls, zvars, streamRequests>>
vars == <<nodes, edges, memberships, summaries, ingestLog, qdrant, subs, uuidNext,
          calls, settings, runs, lockPath, flock, inodeNext, runDirs, latest, clock,
          sessions, clusterCache, lastCounts, now, clusterCalls,
          inflight, tasks, summaryTokens, summaryWindow, snapshots, summaryLog,
          streamRequests>>

---------------------------------------------------------------------------
(* Bounds of the model *)

MaxCalls == 2          \* service calls (ingest / import) per behaviour
MaxQueries == 1        \* read calls (retrieve / path) per behaviour

(* Program constants *)

MaxEntities == 80      \* _heuristic_extract: ordered[:80]
SectionMaxTokens == 450
ChunkMaxTokens == 600
MaxChunks == 100
MaxTitleWords == 8
MaxTitleCaseWords == 6
MaxMentionHits == 5
QueueCapacity == 100

---------------------------------------------------------------------------
(* Sequence helpers *)

Min(a, b) == IF a < b THEN a ELSE b

Range(s) == {s[i] : i \in 1..Len(s)}

RECURSIVE Flatten(_)
Flatten(ss) == IF ss = <<>> THEN <<>> ELSE Head(ss) \o Flatten(Tail(ss))

RECURSIVE DedupeSeq(_)
\* keeps the first occurrence of every element, in order
DedupeSeq(s) ==
    IF s = <<>> THEN <<>>
    ELSE LET r == DedupeSeq(SubSeq(s, 1, Len(s) - 1))
             x == s[Len(s)]
         IN  IF x \in Range(r) THEN r ELSE Append(r, x)

RECURSIVE SeqOfSet(_)
\* some enumeration of a finite set (used where only the elements matter)
SeqOfSet(S) ==
    IF S = {} THEN <<>>
    ELSE LET x == CHOOSE y \in S : TRUE IN <<x>> \o SeqOfSet(S \ {x})

Prefix(s, n) == SubSeq(s, 1, Min(n, Len(s)))

---------------------------------------------------------------------------
(* Vocabulary *)

Words == {"Alpha", "ALPHA", "Gradient", "Python", "Engineer", "Google", "uses"}

\* str.lower()
Lower(w) ==
    CASE w = "Alpha"    -> "alpha"
      [] w = "ALPHA"    -> "alpha"
      [] w = "Gradient" -> "gradient"
      [] w = "Python"   -> "python"
      [] w = "Engineer" -> "engineer"
      [] w = "Google"   -> "google"
      [] w = "Root"     -> "root"
      [] w = "Chunk"    -> "chunk"
      [] OTHER          -> w

\* str.title() of one word
TitleWord(w) == IF w = "ALPHA" THEN "Alpha" ELSE w

LowerName(name) == [i \in 1..Len(name) |-> Lower(name[i])]

\* a in b for two lower-cased vocabulary words: none is a proper substring of another
IsSubstring(a, b) == a = b

\* \b[A-Z][a-zA-Z]{2,}\b
IsCapital(w) == w \in {"Alpha", "ALPHA", "Gradient", "Python", "Engineer", "Google"}
\* \b[A-Z]{2,}\b
IsAcronym(w) == w \in {"ALPHA"}
\* \b(gradient|descent|...)\b with re.IGNORECASE
IsKeyword(w) == Lower(w) \in {"gradient"}
\* [A-Z][A-Z\s/&+-]{2,} restricted to one word
IsAllCapsWord(w) == w \in {"ALPHA"}
\* [A-Z][a-zA-Z]+
IsTitleCaseWord(w) == w \in {"Alpha", "ALPHA", "Gradient", "Python", "Engineer", "Google"}

---------------------------------------------------------------------------
(* Texts *)

Line(ws, c) == [words |-> ws, chars |-> c]

\* two long paragraphs under no heading: two chunks of the section "root"; the
\* word Gradient is both a capitalised word and a keyword
TextA == << Line(<<"Alpha", "uses", "Gradient">>, 2000), Line(<<"Python", "uses">>, 2000) >>
\* a heading line and one paragraph
TextB == << Line(<<"ALPHA">>, 5), Line(<<"Google", "Engineer", "uses", "Python">>, 27) >>
\* a single line that reads as a heading: no section is recorded
TextC == << Line(<<"Alpha", "Google", "Python">>, 19) >>

\* a line of lower-case words: one chunk of the section "root", no entity name
TextD == << Line(<<"uses">>, 4) >>

Texts == {TextA, TextB, TextC}
\* every text the chunker and the extraction are computed for
AllTexts == Texts \cup {TextD}

\* hashlib.sha256(text).hexdigest(): one digest per text
ContentHash(t) ==
    CASE t = TextA -> "hA" [] t = TextB -> "hB" [] t = TextD -> "hD" [] OTHER -> "hC"

TextOfHash(h) == CHOOSE t \in AllTexts : ContentHash(t) = h

TextWords(t) == Flatten([i \in 1..Len(t) |-> t[i].words])

---------------------------------------------------------------------------
(* Chunker: _split_sections_and_chunks and _chunk_text *)

TokenEstimate(line) == (line.chars \div 4) + 1

IsTitleLine(line) ==
    /\ Len(line.words) >= 1
    /\ Len(line.words) <= MaxTitleWords
    /\ \/ \A i \in 1..Len(line.words) : IsAllCapsWord(line.words[i])
       \/ /\ Len(line.words) <= MaxTitleCaseWords
          /\ \A i \in 1..Len(line.words) : IsTitleCaseWord(line.words[i])

RECURSIVE SplitSections(_, _, _)
\* the (title, lines) pairs in order; a section with no body line is not recorded
SplitSections(lines, title, buf) ==
    IF lines = <<>>
    THEN IF buf = <<>> THEN <<>> ELSE << [title |-> title, lines |-> buf] >>
    ELSE LET ln == Head(lines) IN
         IF IsTitleLine(ln)
         THEN (IF buf = <<>> THEN <<>> ELSE << [title |-> title, lines |-> buf] >>)
              \o SplitSections(Tail(lines), [i \in 1..Len(ln.words) |-> TitleWord(ln.words[i])], <<>>)
         ELSE SplitSections(Tail(lines), title, Append(buf, ln))

RECURSIVE GroupByTokens(_, _, _, _)
\* paragraphs grouped so that a group's token estimate stays within maxTokens
GroupByTokens(lines, cur, tok, maxTokens) ==
    IF lines = <<>>
    THEN IF cur = <<>> THEN <<>> ELSE <<cur>>
    ELSE LET p == Head(lines)
             tks == TokenEstimate(p)
         IN  IF tok + tks > maxTokens /\ cur # <<>>
             THEN <<cur>> \o GroupByTokens(Tail(lines), <<p>>, tks, maxTokens)
             ELSE GroupByTokens(Tail(lines), Append(cur, p), tok + tks, maxTokens)

ChunkWords(group) == Flatten([i \in 1..Len(group) |-> group[i].words])

\* re.sub(r"[^a-z0-9]+", "-", title.lower()): the lower-cased words of the title
Slug(title) == LowerName(title)

RECURSIVE SectionChunks(_)
\* the section-aware chunks, each with its section_map entry
SectionChunks(sections) ==
    IF sections = <<>> THEN <<>>
    ELSE LET s == Head(sections)
             parts == GroupByTokens(s.lines, <<>>, 0, SectionMaxTokens)
         IN  [i \in 1..Len(parts) |->
                 [text |-> ChunkWords(parts[i]), section_id |-> Slug(s.title),
                  section_title |-> s.title, local_index |-> i - 1]]
             \o SectionChunks(Tail(sections))

_chunk_text(text) ==
    LET parts == GroupByTokens(text, <<>>, 0, ChunkMaxTokens)
    IN  Prefix([i \in 1..Len(parts) |-> ChunkWords(parts[i])], MaxChunks)

\* (chunks, section_map)
_split_sections_and_chunks(text) ==
    LET all == SectionChunks(SplitSections(text, <<"Root">>, <<>>))
    IN  IF all = <<>>
        THEN [chunks |-> _chunk_text(text), section_map |-> <<>>]
        ELSE [chunks |-> <<>> \o [i \in 1..Len(all) |-> all[i].text],
              section_map |-> <<>> \o [i \in 1..Len(all) |->
                  [section_id |-> all[i].section_id, section_title |-> all[i].section_title]]]

---------------------------------------------------------------------------
(* Extraction: _heuristic_extract and _classify_enrich_entities *)

SelectWords(ws, Test(_)) == SelectSeq(ws, Test)

\* the entity names, in the order of the extraction's node list
_heuristic_names(text) ==
    LET ws == TextWords(text)
        capitals == SelectWords(ws, IsCapital)
        acronyms == SelectWords(ws, IsAcronym)
        kw == SelectWords(ws, IsKeyword)
        keywords == [i \in 1..Len(kw) |-> Lower(kw[i])]
    IN  Prefix(DedupeSeq(capitals \o acronyms \o keywords), MaxEntities)

\* the label _classify_enrich_entities gives to an entity named name
_classify(name) ==
    LET base == Lower(name) IN
    CASE base = "python"   -> "Technology"
      [] base = "google"   -> "Organization"
      [] base = "engineer" -> "Role"
      [] OTHER             -> "Entity"

---------------------------------------------------------------------------
(* Identifiers.  Document ids are plain identifiers: they hold none of the   *)
(* LIKE wildcards % and _ and no "::".                                       *)

Docs == {"d1", "d2"}
Namespaces == {"teamA", "teamB"}

Digits == <<"0", "1", "2", "3", "4", "5">>
IdxStr(i) == Digits[i + 1]

\* f"{doc_id}::chunk::{idx}"
ChunkId(d, i) == [kind |-> "chunk", doc |-> d, idx |-> i, slug |-> <<>>]
\* f"{doc_id}::section::{sid_raw}"
SectionId(d, slug) == [kind |-> "section", doc |-> d, idx |-> 0, slug |-> slug]
\* str(uuid.uuid4()): the n-th value drawn, different from every other id
Uuid(n) == [kind |-> "uuid", doc |-> "", idx |-> n, slug |-> <<>>]
\* an id given by an artifact file (entity_id, relationship_id)
ArtId(s) == [kind |-> "art", doc |-> s, idx |-> 0, slug |-> <<>>]

NodeIds(N) == {n.id : n \in N}
EdgeIds(E) == {e.id : e \in E}

\* the nodes that are neither chunks nor sections
IsEntity(n) == n.label \notin {"Chunk", "Section"}
EntityIds(N) == {n.id : n \in {m \in N : IsEntity(m)}}

\* id LIKE 'D::chunk::%'
LikeChunk(id, d) == id.kind = "chunk" /\ id.doc = d
\* id LIKE 'D::section::%'
LikeSection(id, d) == id.kind = "section" /\ id.doc = d

---------------------------------------------------------------------------
(* _upsert_graph_full, SQLite path *)

\* delete(GraphEdge).where(or_(source_id LIKE .., target_id LIKE .., ..))
PurgeEdgeMatch(e, d) ==
    \/ LikeChunk(e.s, d) \/ LikeChunk(e.t, d)
    \/ LikeSection(e.s, d) \/ LikeSection(e.t, d)

\* delete(GraphNode).where(or_(id LIKE 'D::chunk::%', id LIKE 'D::section::%'))
PurgeNodeMatch(id, d) == LikeChunk(id, d) \/ LikeSection(id, d)

PurgedEdges(E, d) == {e \in E : ~PurgeEdgeMatch(e, d)}
PurgedNodes(N, d) == {n \in N : ~PurgeNodeMatch(n.id, d)}

ChunkNode(d, i, words, ns, emb) ==
    [id |-> ChunkId(d, i), label |-> "Chunk", name |-> <<"Chunk", IdxStr(i)>>,
     ns |-> ns, pns |-> ns, src |-> d, emb |-> emb, text |-> words]

EntityNode(id, nm, d, ns, emb) ==
    [id |-> id, label |-> _classify(nm), name |-> <<nm>>,
     ns |-> ns, pns |-> ns, src |-> d, emb |-> emb, text |-> <<>>]

SectionNode(d, slug, title, ns) ==
    [id |-> SectionId(d, slug), label |-> "Section", name |-> title,
     ns |-> ns, pns |-> ns, src |-> d, emb |-> FALSE, text |-> <<>>]

Edge(id, s, t, rel, conf, ns) ==
    [id |-> id, s |-> s, t |-> t, rel |-> rel, conf |-> conf, ns |-> ns]

\* the rows of the scan that carry the key (k, ns) of existing_lookup
LookupCandidates(existing, ns, k) ==
    {n.id : n \in {m \in existing : m.pns = ns /\ LowerName(m.name) = <<k>>}}

\* the keys (name.lower(), namespace) that the extracted names hit
LookupKeys(existing, ns, names) ==
    {k \in {Lower(names[i]) : i \in 1..Len(names)} : LookupCandidates(existing, ns, k) # {}}

RECURSIVE LookupsOver(_, _, _)
LookupsOver(keys, existing, ns) ==
    IF keys = {} THEN {<<>>}
    ELSE LET k == CHOOSE x \in keys : TRUE
         IN  {(k :> v) @@ f : v \in LookupCandidates(existing, ns, k),
                               f \in LookupsOver(keys \ {k}, existing, ns)}

\* existing_lookup: a dict comprehension over select(GraphNode) with no ORDER BY;
\* of several rows with one key, the row the scan yields last wins
ExistingLookups(existing, ns, names) ==
    LookupsOver(LookupKeys(existing, ns, names), existing, ns)

\* entity_name_to_id.get(sid, sid): the keys of the dict are entity names and
\* sid is the uuid of an extracted node, so the lookup never hits
ResolveEndpoint(sid, entity_name_to_id) == sid

\* lname in lowered_chunk
ChunkMentions(nm, words) ==
    \E i \in 1..Len(words) : IsSubstring(Lower(nm), Lower(words[i]))

Triple(s, t, rel, conf) == [s |-> s, t |-> t, rel |-> rel, conf |-> conf]

\* what the chunker and the extraction give for every text, computed once
Chunked == [t \in AllTexts |-> _split_sections_and_chunks(t)] @@ <<>>
Extracted == [t \in AllTexts |-> _heuristic_names(t)] @@ <<>>

\* per text and chunk, the indices of the extracted names the chunk mentions
Mentioned ==
    [t \in AllTexts |->
        <<>> \o [i \in 1..Len(Chunked[t].chunks) |->
            SelectSeq([k \in 1..Len(Extracted[t]) |-> k],
                      LAMBDA k : ChunkMentions(Extracted[t][k], Chunked[t].chunks[i]))]] @@ <<>>

\* per text and name, the first MaxMentionHits chunks that mention the name
Hits ==
    [t \in AllTexts |->
        <<>> \o [k \in 1..Len(Extracted[t]) |->
            Prefix(SelectSeq([i \in 1..Len(Chunked[t].chunks) |-> i],
                             LAMBDA i : ChunkMentions(Extracted[t][k], Chunked[t].chunks[i])),
                   MaxMentionHits)]] @@ <<>>

\* entity_name_to_id by position of the extracted name: a name found in
\* existing_lookup takes the id of that row, any other keeps the uuid of its
\* extracted node, which becomes a new row
EntityIdsOf(names, look, u0) ==
    [extId |-> <<>> \o [i \in 1..Len(names) |-> Uuid(u0 + i)],
     isNew |-> <<>> \o [i \in 1..Len(names) |-> Lower(names[i]) \notin DOMAIN look],
     idOf |-> <<>> \o [i \in 1..Len(names) |->
                 IF Lower(names[i]) \notin DOMAIN look THEN Uuid(u0 + i)
                 ELSE look[Lower(names[i])]]]

\* the section ids in order of first appearance, and the title of each
SectionSlugs(section_map) ==
    DedupeSeq([i \in 1..Len(section_map) |-> section_map[i].section_id])

SectionTitle(section_map, slug) ==
    section_map[CHOOSE i \in 1..Len(section_map) :
                   /\ section_map[i].section_id = slug
                   /\ \A j \in 1..(i - 1) : section_map[j].section_id # slug].section_title

\* the chunk, entity and section rows the transaction adds
NewNodes(d, ns, emb, ck, names, ent) ==
    {ChunkNode(d, i - 1, ck.chunks[i], ns, emb) : i \in 1..Len(ck.chunks)}
    \cup {EntityNode(ent.extId[i], names[i], d, ns, emb) :
             i \in {j \in 1..Len(names) : ent.isNew[j]}}
    \cup {SectionNode(d, slug, SectionTitle(ck.section_map, slug), ns) :
             slug \in Range(SectionSlugs(ck.section_map))}

\* chunk_entity_map, built only when there is a section map
ChunkEntityMap(ck, mentioned, idOf) ==
    <<>> \o [i \in 1..Len(ck.chunks) |->
                IF ck.section_map = <<>> THEN {}
                ELSE {idOf[mentioned[i][k]] : k \in 1..Len(mentioned[i])}]

AllEntities(cem) == UNION {cem[i] : i \in 1..Len(cem)}

\* entity_label_lookup: the label of the last extracted node with the id
EntityLabels(names, idOf, ids) ==
    [e \in ids |-> _classify(names[CHOOSE k \in 1..Len(names) :
                       /\ idOf[k] = e
                       /\ \A j \in (k + 1)..Len(names) : idOf[j] # e])] @@ <<>>

\* extraction edges: consecutive entities
ExtractionEdges(ent) ==
    [i \in 1..(IF Len(ent.extId) = 0 THEN 0 ELSE Len(ent.extId) - 1) |->
        Triple(ResolveEndpoint(ent.extId[i], ent.idOf),
               ResolveEndpoint(ent.extId[i + 1], ent.idOf), "RELATED_TO", 35)]

\* section -> chunk containment
ContainsEdges(d, section_map) ==
    [i \in 1..Len(section_map) |->
        Triple(SectionId(d, section_map[i].section_id), ChunkId(d, i - 1), "CONTAINS", 90)]

\* one CO_OCCURS edge per pair of entities that share a chunk.  The direction
\* follows the order of two uuid strings; one of the two is taken.
CoOccursEdges(cem) ==
    LET coSeq == SeqOfSet({p \in SUBSET AllEntities(cem) :
                              /\ Cardinality(p) = 2
                              /\ \E i \in 1..Len(cem) : p \subseteq cem[i]})
    IN  [k \in 1..Len(coSeq) |->
            LET a == CHOOSE x \in coSeq[k] : TRUE
                b == CHOOSE x \in coSeq[k] : x # a
            IN  Triple(a, b, "CO_OCCURS", 55)]

\* one HAS_ENTITY edge per (section, entity) pair
HasEntityEdges(d, section_map, cem) ==
    LET hasSeq == SeqOfSet({p \in Range(SectionSlugs(section_map)) \X AllEntities(cem) :
                       \E i \in 1..Len(cem) : /\ i <= Len(section_map)
                                              /\ section_map[i].section_id = p[1]
                                              /\ p[2] \in cem[i]})
    IN  [k \in 1..Len(hasSeq) |->
            Triple(SectionId(d, hasSeq[k][1]), hasSeq[k][2], "HAS_ENTITY", 50)]

WithLabel(cem, labelled, i, lab) == {e \in cem[i] : labelled[e] = lab}

\* Role -> Organization pairs of a chunk
RoleAtEdges(cem, labelled) ==
    LET roleSeq == SeqOfSet(UNION {WithLabel(cem, labelled, i, "Role")
                                      \X WithLabel(cem, labelled, i, "Organization") :
                                      i \in 1..Len(cem)})
    IN  [k \in 1..Len(roleSeq) |-> Triple(roleSeq[k][1], roleSeq[k][2], "ROLE_AT", 65)]

\* (Role or Organization) -> Technology pairs of a chunk
UsesTechEdges(cem, labelled) ==
    LET usesSeq == SeqOfSet(UNION {(WithLabel(cem, labelled, i, "Role")
                                       \cup WithLabel(cem, labelled, i, "Organization"))
                                      \X WithLabel(cem, labelled, i, "Technology") :
                                      i \in 1..Len(cem)})
    IN  [k \in 1..Len(usesSeq) |-> Triple(usesSeq[k][1], usesSeq[k][2], "USES_TECH", 55)]

\* entity -> chunk mention edges
MentionEdges(d, hits, idOf) ==
    Flatten([k \in 1..Len(hits) |->
                [h \in 1..Len(hits[k]) |->
                    Triple(idOf[k], ChunkId(d, hits[k][h] - 1), "MENTIONED_IN", 60)]])

\* the edges of the transaction in the order they are added
Triples(d, ck, hits, ent, cem, labelled) ==
    ExtractionEdges(ent) \o ContainsEdges(d, ck.section_map) \o CoOccursEdges(cem)
        \o HasEntityEdges(d, ck.section_map, cem) \o RoleAtEdges(cem, labelled)
        \o UsesTechEdges(cem, labelled) \o MentionEdges(d, hits, ent.idOf)

\* everything the transaction adds, given the number u0 of uuids drawn before
\* the call
Upsert(d, ns, emb, u0, ck, names, ent, triples) ==
    [nodes |-> NewNodes(d, ns, emb, ck, names, ent),
     edges |-> {Edge(Uuid(u0 + Len(names) + k), triples[k].s, triples[k].t, triples[k].rel,
                     triples[k].conf, ns) : k \in 1..Len(triples)},
     chunk_ids |-> [i \in 1..Len(ck.chunks) |-> ChunkId(d, i - 1)],
     created_nodes |-> Len(ck.chunks) + Cardinality({j \in 1..Len(names) : ent.isNew[j]})
                          + Len(SectionSlugs(ck.section_map)),
     created_edges |-> Len(triples),
     uuids |-> u0 + Len(names) + Len(triples)]

---------------------------------------------------------------------------
(* ingest_document.  Calls are made with force_heuristic=True and            *)
(* compute_layout=False; an embedding is obtained whenever embeddings are    *)
(* not disabled and the embedding client is configured.                      *)

\* how many of the calls made so far are of the operations ops
NumCalls(ops) == Cardinality({i \in 1..Len(calls) : calls[i].op \in ops})

\* a commit that no primary key stops
CommitUnchecked(oldNodes, newNodes, oldEdges, newEdges) == TRUE

\* session.commit(): the primary key of graphrag_nodes / graphrag_edges is id
CommitOk(oldNodes, newNodes, oldEdges, newEdges) ==
    /\ NodeIds(oldNodes) \cap NodeIds(newNodes) = {}
    /\ Cardinality(NodeIds(newNodes)) = Cardinality(newNodes)
    /\ EdgeIds(oldEdges) \cap EdgeIds(newEdges) = {}
    /\ Cardinality(EdgeIds(newEdges)) = Cardinality(newEdges)

\* the points the post-commit Qdrant upsert writes: the rows whose source_ids
\* hold doc_id and whose embedding is not empty, keyed by node id
QdrantUpsert(points, N, d) ==
    LET doc_nodes == {n \in N : n.src = d /\ n.emb}
    IN  {p \in points : p.id \notin NodeIds(doc_nodes)}
        \cup {[id |-> n.id, ns |-> n.pns] : n \in doc_nodes}

\* new_events of the streaming broadcast
BroadcastEvents(chunk_ids, created_edges, d) ==
    [i \in 1..Len(chunk_ids) |-> [event |-> "node_added", id |-> chunk_ids[i], count |-> 0]]
    \o (IF created_edges > 0
        THEN << [event |-> "edges_added", id |-> ChunkId(d, 0), count |-> created_edges] >>
        ELSE <<>>)

RECURSIVE PutAll(_, _)
\* q.put_nowait(evt) for every event: a full queue drops the event
PutAll(q, evts) ==
    IF evts = <<>> THEN q
    ELSE PutAll(IF Len(q) >= QueueCapacity THEN q ELSE Append(q, Head(evts)), Tail(evts))

\* _push: every event to every subscriber queue
Push(queues, evts) == [i \in 1..Len(queues) |-> PutAll(queues[i], evts)]

\* an update that marks the row stale without comparing the hashes
IngestLogAlwaysStale(log, d, ns, h) ==
    IF \E r \in log : r.id = d /\ r.ns = ns
    THEN {IF r.id = d /\ r.ns = ns
          THEN [r EXCEPT !.hash = h, !.status = "stale"] ELSE r : r \in log}
    ELSE IF \E r \in log : r.id = d
         THEN log
         ELSE log \cup {[id |-> d, ns |-> ns, hash |-> h, status |-> "ingested", indexed_at |-> FALSE]}

\* the ingest-log update of ingest_document; a failing insert (the primary key of
\* graphrag_ingest_log is the doc id alone) is swallowed
IngestLogUpdate(log, d, ns, h) ==
    IF \E r \in log : r.id = d /\ r.ns = ns
    THEN {IF r.id = d /\ r.ns = ns /\ r.hash # h
          THEN [r EXCEPT !.hash = h, !.status = "stale"] ELSE r : r \in log}
    ELSE IF \E r \in log : r.id = d
         THEN log
         ELSE log \cup {[id |-> d, ns |-> ns, hash |-> h, status |-> "ingested", indexed_at |-> FALSE]}

\* the response is success=True whatever became of the transaction
IngestResponse(committed) == TRUE

\* _upsert_graph_full from the entity loop to the commit, and the rest of
\* ingest_document, for a transaction in which existing / keptEdges are the
\* rows left by the purge and look is the existing_lookup built from the scan
CommitIngest(d, text, ns, disable_embeddings, dbError, existing, keptEdges, look) ==
    /\ \E ent \in {EntityIdsOf(Extracted[text], look, uuidNext)} :
       \E cem \in {ChunkEntityMap(Chunked[text], Mentioned[text], ent.idOf)} :
       \E labelled \in {EntityLabels(Extracted[text], ent.idOf, AllEntities(cem))} :
       \E triples \in {Triples(d, Chunked[text], Hits[text], ent, cem, labelled)} :
       \E up \in {Upsert(d, ns, ~disable_embeddings /\ settings.gemini, uuidNext,
                         Chunked[text], Extracted[text], ent, triples)} :
       \E committed \in {~dbError /\ CommitOk(existing, up.nodes, keptEdges, up.edges)} :
       \E nodesAfter \in {IF committed THEN existing \cup up.nodes ELSE nodes} :
       \E evts \in {IF subs # <<>>
                    THEN BroadcastEvents(up.chunk_ids, up.created_edges, d) ELSE <<>>} :
           /\ nodes' = nodesAfter
           /\ edges' = IF committed THEN keptEdges \cup up.edges ELSE edges
           /\ uuidNext' = IF committed THEN up.uuids ELSE uuidNext
           /\ qdrant' = IF settings.qdrant /\ ~disable_embeddings
                        THEN QdrantUpsert(qdrant, nodesAfter, d) ELSE qdrant
           /\ subs' = Push(subs, evts)
           /\ ingestLog' = IngestLogUpdate(ingestLog, d, ns, ContentHash(text))
           /\ calls' = Append(calls,
                  [op |-> "ingest", doc |-> d, ns |-> ns, hash |-> ContentHash(text),
                   emb |-> ~disable_embeddings, committed |-> committed,
                   success |-> IngestResponse(committed),
                   events |-> Len(evts),
                   vector_upsert |-> /\ settings.qdrant /\ ~disable_embeddings
                                     /\ \E n \in nodesAfter : n.src = d /\ n.emb,
                   created_nodes |-> up.created_nodes, created_edges |-> up.created_edges])
    /\ UNCHANGED <<memberships, summaries, settings>>

\* ingest_document run from its first statement to its return with no other
\* writer in between
IngestCall(d, text, ns, disable_embeddings, dbError) ==
    /\ \E existing \in {PurgedNodes(nodes, d)}, keptEdges \in {PurgedEdges(edges, d)} :
       \E look \in ExistingLookups(existing, ns, Extracted[text]) :
           CommitIngest(d, text, ns, disable_embeddings, dbError, existing, keptEdges, look)
    /\ UNCHANGED ovars
    /\ UNCHANGED xvars

IngestDocument(d, text, ns, disable_embeddings, dbError) ==
    /\ NumCalls({"ingest", "import"}) < MaxCalls
    /\ IngestCall(d, text, ns, disable_embeddings, dbError)

\* GET /graphrag/stream requests per behaviour
MaxSubs == 1

\* graphrag_stream: the handler reads the global name smart_assistant, which the
\* module app/api/smart_assistant.py never binds (the service's own import binds
\* it in the package app.api only).  NameError is raised at the first statement,
\* before the queue is created or appended to _graphrag_stream_subs, and the
\* request is answered with a 500
Subscribe ==
    /\ streamRequests < MaxSubs
    /\ streamRequests' = streamRequests + 1
    /\ subs' = subs
    /\ UNCHANGED <<nodes, edges, memberships, summaries, ingestLog, qdrant, uuidNext, calls, settings>>
    /\ UNCHANGED ovars
    /\ UNCHANGED <<sessions, clusterCache, lastCounts, now, clusterCalls, zvars>>

---------------------------------------------------------------------------
(* import_artifacts (scripts/import_graphrag_artifacts.py).  Every upsert_*   *)
(* runs in a transaction of its own.                                         *)

\* the artifact files written by run_dummy_pipeline
ArtDummy ==
    [entities |-> << [entity_id |-> "eA", name |-> "Alpha", type |-> "Concept"] >>,
     relationships |-> << [relationship_id |-> "r1", src_id |-> "eA", dst_id |-> "eA",
                           relationship_type |-> "RELATED_TO", weight |-> 100] >>,
     communities |-> << [community_id |-> "c1", entity_id |-> "eA"] >>,
     community_reports |-> << [community_id |-> "c1"] >>]

\* a pipeline output with two entities and one relationship between them
ArtPair ==
    [entities |-> << [entity_id |-> "eA", name |-> "Alpha", type |-> "Concept"],
                     [entity_id |-> "eB", name |-> "Python", type |-> "Concept"] >>,
     relationships |-> << [relationship_id |-> "r2", src_id |-> "eA", dst_id |-> "eB",
                           relationship_type |-> "USES_TECH", weight |-> 100] >>,
     communities |-> << [community_id |-> "c1", entity_id |-> "eA"],
                        [community_id |-> "c1", entity_id |-> "eB"] >>,
     community_reports |-> << [community_id |-> "c1"] >>]

\* the same output with a lower weight on the relationship
ArtPairLow == [ArtPair EXCEPT !.relationships[1].weight = 50]

Artifacts == {ArtDummy, ArtPair}

ArtName(art) ==
    CASE art = ArtDummy -> "dummy" [] art = ArtPairLow -> "pair_low" [] OTHER -> "pair"

\* no record is matched with a row of the store
NoEntityTarget(existing, rec) == FALSE

\* id_index.get(eid) or name_index.get(name.lower())
EntityTarget(existing, rec) ==
    \E n \in existing : \/ n.id = ArtId(rec.entity_id)
                         \/ LowerName(n.name) = <<Lower(rec.name)>>

\* upsert_entities: the nodes the transaction adds.  name_index and id_index are
\* built once from the rows whose namespace column is ns.
upsert_entities(N, recs, ns) ==
    {[id |-> ArtId(rec.entity_id), label |-> rec.type, name |-> <<rec.name>>,
      ns |-> ns, pns |-> ns, src |-> "", emb |-> FALSE, text |-> <<>>] :
        rec \in {r \in Range(recs) : ~EntityTarget({n \in N : n.ns = ns}, r)}}

\* upsert_relationships: the edges after the transaction; an edge of the
\* namespace with the same (source, target, relation) keeps the larger confidence
upsert_relationships(E, recs, ns) ==
    LET hit(rec, e) == /\ e.ns = ns /\ e.s = ArtId(rec.src_id) /\ e.t = ArtId(rec.dst_id)
                       /\ e.rel = rec.relationship_type
        merged == {IF \E rec \in Range(recs) : hit(rec, e) /\ e.conf < rec.weight
                   THEN [e EXCEPT !.conf = (CHOOSE rec \in Range(recs) : hit(rec, e)).weight]
                   ELSE e : e \in E}
        added == {Edge(ArtId(rec.relationship_id), ArtId(rec.src_id), ArtId(rec.dst_id),
                       rec.relationship_type, rec.weight, ns) :
                     rec \in {r \in Range(recs) : ~\E e \in E : hit(r, e)}}
    IN  [merged |-> merged, added |-> added]

\* upsert_communities: a row for every record whose (node, cluster) pair no
\* membership row of the namespace has yet
upsert_communities(M, recs, ns) ==
    {[node_id |-> ArtId(rec.entity_id), cluster_id |-> rec.community_id,
      ns |-> ns, algorithm |-> "graphrag"] :
        rec \in {r \in Range(recs) : ~\E m \in M : /\ m.ns = ns
                                                    /\ m.node_id = ArtId(r.entity_id)
                                                    /\ m.cluster_id = r.community_id}}

\* upsert_community_reports: a row for every record whose cluster has no
\* graphrag summary in the namespace yet
upsert_community_reports(S, recs, ns) ==
    {[cluster_id |-> rec.community_id, ns |-> ns, algorithm |-> "graphrag"] :
        rec \in {r \in Range(recs) : ~\E x \in S : /\ x.ns = ns /\ x.algorithm = "graphrag"
                                                    /\ x.cluster_id = r.community_id}}

\* the four artifact files import_artifacts looks for
ArtifactFiles == {"entities", "relationships", "communities", "community_reports"}

\* import_artifacts(path, namespace) over the files present at path: a commit
\* that violates a primary key raises out of the call; what earlier transactions
\* of the call committed stays.  A file that is absent is recorded as missing.
import_artifacts(N, E, M, S, art, files, ns) ==
    LET newNodes == IF "entities" \in files THEN upsert_entities(N, art.entities, ns) ELSE {}
        entOk == CommitOk(N, newNodes, {}, {})
        rel == IF "relationships" \in files
               THEN upsert_relationships(E, art.relationships, ns)
               ELSE [merged |-> E, added |-> {}]
        relOk == entOk /\ CommitOk({}, {}, E, rel.added)
        comm == IF relOk /\ "communities" \in files
                THEN upsert_communities(M, art.communities, ns) ELSE {}
        reports == IF relOk /\ "community_reports" \in files
                   THEN upsert_community_reports(S, art.community_reports, ns) ELSE {}
    IN  [nodes |-> IF entOk THEN N \cup newNodes ELSE N,
         edges |-> IF relOk THEN rel.merged \cup rel.added ELSE E,
         memberships |-> M \cup comm,
         summaries |-> S \cup reports,
         raised |-> ~relOk,
         missing |-> ArtifactFiles \ files,
         entities_new |-> Cardinality(newNodes),
         relationships_new |-> Cardinality(rel.added),
         community_memberships_added |-> Cardinality(comm),
         community_reports_added |-> Cardinality(reports)]

\* import_artifacts called on a directory that holds all four files
ImportCall(art, ns) ==
    /\ \E imp \in {import_artifacts(nodes, edges, memberships, summaries, art, ArtifactFiles, ns)} :
           /\ nodes' = imp.nodes
           /\ edges' = imp.edges
           /\ memberships' = imp.memberships
           /\ summaries' = imp.summaries
           /\ calls' = Append(calls,
                  [op |-> "import", art |-> ArtName(art), ns |-> ns, raised |-> imp.raised,
                   entities_new |-> imp.entities_new,
                   relationships_new |-> imp.relationships_new,
                   community_memberships_added |-> imp.community_memberships_added,
                   community_reports_added |-> imp.community_reports_added])
    /\ UNCHANGED <<ingestLog, qdrant, subs, uuidNext, settings>>
    /\ UNCHANGED ovars
    /\ UNCHANGED xvars

\* the import CLI
ImportArtifacts(art, ns) ==
    /\ NumCalls({"ingest", "import"}) < MaxCalls
    /\ ImportCall(art, ns)

---------------------------------------------------------------------------
(* hybrid_retrieve, called without label_filter and relation_filter.  The    *)
(* rank a vector search gives and the order of rows a SELECT without ORDER   *)
(* BY yields are not fixed by the code: any order may occur.                 *)

Queries == {"Alpha", "uses"}
TopKs == {1, 2}
QdrantLimitFactor == 3
NameLimitFactor == 5
EdgeLimit == 300

\* the first m elements of S under some order
AnyOf(S, m) ==
    IF Cardinality(S) <= m THEN {S} ELSE {X \in SUBSET S : Cardinality(X) = m}

\* GraphNode.name.ilike(f"%{query}%")
NameMatches(n, query) ==
    \E i \in 1..Len(n.name) : IsSubstring(Lower(query), Lower(n.name[i]))

\* tf of the query term in a chunk
TermFreq(n, query) == Cardinality({i \in 1..Len(n.text) : Lower(n.text[i]) = Lower(query)})

RECURSIVE SumLen(_)
SumLen(S) ==
    IF S = {} THEN 0
    ELSE LET n == CHOOSE x \in S : TRUE IN Len(n.text) + SumLen(S \ {n})

\* score(x) >= score(y) for the BM25 score of a one-term query with k1 = 1.5 and
\* b = 0.75 over the chunks doc_texts: tf / (tf + 0.375 + 1.125 * dl / avg_dl)
BM25AtLeast(x, y, query, doc_texts) ==
    TermFreq(x, query) * (SumLen(doc_texts) + 3 * Cardinality(doc_texts) * Len(y.text))
        >= TermFreq(y, query) * (SumLen(doc_texts) + 3 * Cardinality(doc_texts) * Len(x.text))

\* scores[:top_k] after the sort by score; equal scores keep the row order
BM25Top(query, top_k, ns) ==
    LET doc_texts == {n \in nodes : n.label = "Chunk" /\ n.pns = ns /\ n.text # <<>>}
        scored == {n \in doc_texts : TermFreq(n, query) > 0}
    IN  {X \in AnyOf(scored, top_k) :
            \A x \in X : \A y \in scored \ X : BM25AtLeast(x, y, query, doc_texts)}

\* the Qdrant stage: the points whose payload namespace is ns, then the rows
\* with those ids (whatever their namespace), cut to top_k
QdrantChosen(top_k, ns) ==
    IF settings.qdrant /\ settings.gemini
    THEN UNION {AnyOf({n \in nodes : n.id \in hits}, top_k) :
                   hits \in AnyOf({pt.id : pt \in {q \in qdrant : q.ns = ns}},
                                  QdrantLimitFactor * top_k)}
    ELSE {{}}

\* the in-process embedding stage over the rows of the namespace
EmbeddingChosen(top_k, ns) ==
    AnyOf({n \in nodes : n.pns = ns /\ n.emb}, top_k)

\* the name_contains stage: LIMIT top_k * 5, then the namespace filter, then top_k
NameChosen(query, top_k, ns) ==
    UNION {AnyOf({n \in limited : n.pns = ns}, top_k) :
              limited \in AnyOf({n \in nodes : NameMatches(n, query)}, NameLimitFactor * top_k)}

Chosen(set, strategy) == [chosen |-> set, chain |-> strategy]

\* every (chosen, strategy chain) the call may end with
RetrieveChoices(query, top_k, ns) ==
    LET afterName == {Chosen(X, "name_contains") : X \in NameChosen(query, top_k, ns) \ {{}}}
                     \cup (IF {} \in NameChosen(query, top_k, ns)
                           THEN {Chosen(X, IF X = {} THEN "none" ELSE "bm25") :
                                    X \in BM25Top(query, top_k, ns)}
                           ELSE {})
        afterEmbedding == IF \E n \in nodes : n.pns = ns /\ n.emb
                          THEN {Chosen(X, "embedding") : X \in EmbeddingChosen(top_k, ns)}
                          ELSE afterName
    IN  {Chosen(X, "qdrant") : X \in QdrantChosen(top_k, ns) \ {{}}}
        \cup (IF {} \in QdrantChosen(top_k, ns) THEN afterEmbedding ELSE {})

HybridRetrieve(query, top_k, ns) ==
    /\ NumCalls({"retrieve", "path"}) < MaxQueries
    /\ \E r \in RetrieveChoices(query, top_k, ns) :
       \E es \in AnyOf({e \in edges : e.s \in NodeIds(r.chosen) \/ e.t \in NodeIds(r.chosen)},
                       EdgeLimit) :
           calls' = Append(calls,
               [op |-> "retrieve", query |-> query, top_k |-> top_k, ns |-> ns,
                nodes |-> {[id |-> n.id, ns |-> n.pns] : n \in r.chosen},
                edges |-> {[id |-> e.id, ns |-> e.ns] : e \in es},
                chain |-> r.chain])
    /\ UNCHANGED <<nodes, edges, memberships, summaries, ingestLog, qdrant, subs, uuidNext, settings>>
    /\ UNCHANGED ovars
    /\ UNCHANGED xvars

---------------------------------------------------------------------------
(* shortest_path, SQLite breadth-first search.  The neighbours of a node are *)
(* a Python set of strings: the order in which they are visited is not       *)
(* fixed, so any shortest path may be the one returned.                      *)

PathDepths == {1, 4}

\* graph[v]: built from every row of graphrag_edges, in both directions
Neighbours(v) == {e.t : e \in {f \in edges : f.s = v}} \cup {e.s : e \in {f \in edges : f.t = v}}

Last(p) == p[Len(p)]

RECURSIVE BFS(_, _, _)
\* the paths of the search tree that reach target first; frontier holds the paths
\* to the nodes of the current level, visited the keys of prev
BFS(frontier, visited, target) ==
    IF frontier = {} THEN {}
    ELSE IF \E p \in frontier : Last(p) = target
         THEN {p \in frontier : Last(p) = target}
         ELSE LET next == UNION {{Append(p, w) : w \in Neighbours(Last(p)) \ visited} :
                                     p \in frontier}
              IN  BFS(next, visited \cup {Last(p) : p \in next}, target)

\* the values of "path" the call may answer; max_depth and namespace are not read
shortest_path(source_id, target_id, max_depth, namespace) ==
    IF source_id = target_id THEN {<<source_id>>}
    ELSE IF BFS({<<source_id>>}, {source_id}, target_id) = {} THEN {<<>>}
         ELSE BFS({<<source_id>>}, {source_id}, target_id)

\* the calls made: from an entity named like ProbeName to any entity
ProbeName == "alpha"

ShortestPath(source_id, target_id, max_depth, namespace) ==
    /\ NumCalls({"retrieve", "path"}) < MaxQueries
    /\ \E path \in shortest_path(source_id, target_id, max_depth, namespace) :
           calls' = Append(calls,
               [op |-> "path", source |-> source_id, target |-> target_id,
                max_depth |-> max_depth, ns |-> namespace, path |-> path])
    /\ UNCHANGED <<nodes, edges, memberships, summaries, ingestLog, qdrant, subs, uuidNext, settings>>
    /\ UNCHANGED ovars
    /\ UNCHANGED xvars

---------------------------------------------------------------------------
(* orchestrate (scripts/run_graphrag_index.py).  Every invocation is a       *)
(* process of its own; its steps interleave with those of other invocations  *)
(* and with the service.  Invocations start in different UTC seconds.        *)

MaxRuns == 2

\* the default of the keep parameter
DefaultKeep == 5

\* what the index pipeline leaves in the staging directory: all four files (as
\* run_dummy_pipeline writes them), or all but an optional or a core one
PipelineOutcomes == {"full", "no_reports", "no_relationships"}

FilesOf(outcome) ==
    CASE outcome = "full" -> ArtifactFiles
      [] outcome = "no_reports" -> ArtifactFiles \ {"community_reports"}
      [] OTHER -> ArtifactFiles \ {"relationships"}

\* the locals of orchestrate() after the ingest log was read
Run(namespace, force, dry_run, ts, rows, stale_doc_ids) ==
    [namespace |-> namespace, force |-> force, dry_run |-> dry_run, ts |-> ts,
     rows |-> rows, stale_doc_ids |-> stale_doc_ids, pc |-> "lock",
     lock_acquired |-> FALSE, lock_handle |-> 0, status |-> "UNKNOWN", missing |-> {}]

\* _load: select(IngestLog).where(IngestLog.namespace == namespace)
LoadRows(log, namespace) == {r \in log : r.ns = namespace}

\* _load: the ids of the namespace's rows whose status is stale
StaleDocIds(log, namespace) == {r.id : r \in {x \in log : x.ns = namespace /\ x.status = "stale"}}

\* _mark: the rows of the namespace with one of the ids become indexed
MarkIndexed(log, namespace, ids) ==
    {IF r.ns = namespace /\ r.id \in ids
     THEN [r EXCEPT !.status = "indexed", !.indexed_at = TRUE] ELSE r : r \in log}

\* staging.mkdir(parents=True, exist_ok=True) and the files written into it
WriteDir(dirs, ts, markers, files) ==
    IF \E d \in dirs : d.ts = ts
    THEN {IF d.ts = ts THEN [d EXCEPT !.markers = @ \cup markers, !.files = @ \cup files]
          ELSE d : d \in dirs}
    ELSE dirs \cup {[ts |-> ts, markers |-> markers, files |-> files]}

\* Path.write_text of a marker: FileNotFoundError when the directory is gone
HasDir(dirs, ts) == \E d \in dirs : d.ts = ts

WriteMarker(dirs, ts, marker) ==
    {IF d.ts = ts THEN [d EXCEPT !.markers = @ \cup {marker}] ELSE d : d \in dirs}

\* _prune_old_runs: the keep directories with the greatest names stay
_prune_old_runs(dirs, keep) ==
    {d \in dirs : Cardinality({e \in dirs : e.ts > d.ts}) < keep}

\* status and marker once the import returned
StatusOf(missing) ==
    IF "entities" \in missing \/ "relationships" \in missing THEN "FAILED"
    ELSE IF missing # {} THEN "PARTIAL" ELSE "SUCCESS"

MarkerOf(status) ==
    CASE status = "SUCCESS" -> "_SUCCESS"
      [] status = "PARTIAL" -> "_PARTIAL"
      [] OTHER -> "_FAILED"

SetRun(i, r) == runs' = [runs EXCEPT ![i] = r]

\* orchestrate() up to the lock: the timestamp is taken and the ingest log read
StartRun(namespace, force, dry_run) ==
    /\ Len(runs) < MaxRuns
    /\ clock' = clock + 1
    /\ runs' = Append(runs, Run(namespace, force, dry_run, clock + 1,
                                LoadRows(ingestLog, namespace),
                                StaleDocIds(ingestLog, namespace)))
    /\ UNCHANGED <<lockPath, flock, inodeNext, runDirs, latest>>
    /\ UNCHANGED gvars
    /\ UNCHANGED xvars

\* the staging directory made before the NOOP return instead of after it
StagingBeforeNoop(dirs, ts, status) ==
    IF status \in {"UNKNOWN", "NOOP"} THEN WriteDir(dirs, ts, {"_RUNNING"}, {}) ELSE dirs

\* staging.mkdir and the _RUNNING marker: reached by the runs that neither
\* returned LOCKED or NOOP nor are dry runs
StagingAfterLock(dirs, ts, status) ==
    IF status = "UNKNOWN" THEN WriteDir(dirs, ts, {"_RUNNING"}, {}) ELSE dirs

\* _acquire_lock, the LOCKED and NOOP returns, and the creation of the staging
\* directory with its _RUNNING marker.  open(lock_path, 'w') creates the file
\* when no inode is linked at the path; flock is on the inode opened.
AcquireLock(i) ==
    /\ runs[i].pc = "lock"
    /\ \E ino \in {IF lockPath = 0 THEN inodeNext + 1 ELSE lockPath} :
       \E acquired \in {ino \notin flock} :
       \E status \in {IF ~acquired /\ ~runs[i].force THEN "LOCKED"
                      ELSE IF runs[i].dry_run THEN "DRY_RUN"
                      ELSE IF runs[i].stale_doc_ids = {} /\ ~runs[i].force THEN "NOOP"
                      ELSE "UNKNOWN"} :
       \E finalized \in (IF status = "NOOP" THEN BOOLEAN ELSE {FALSE}) :
           /\ lockPath' = ino
           /\ inodeNext' = IF lockPath = 0 THEN inodeNext + 1 ELSE inodeNext
           /\ flock' = IF acquired /\ ~finalized THEN flock \cup {ino} ELSE flock
           /\ SetRun(i, [runs[i] EXCEPT
                  !.lock_acquired = acquired,
                  !.lock_handle = IF acquired THEN ino ELSE 0,
                  !.status = status,
                  !.pc = CASE status = "LOCKED" -> "done"
                           [] status = "NOOP" -> IF finalized THEN "done" ELSE "returned"
                           [] status = "DRY_RUN" -> "finish"
                           [] OTHER -> "generate"])
           /\ runDirs' = StagingAfterLock(runDirs, runs[i].ts, status)
    /\ UNCHANGED <<latest, clock>>
    /\ UNCHANGED gvars
    /\ UNCHANGED xvars

\* an exception that no handler takes: the status stays what it was
NoOuterHandler(status) == status

\* the outermost handler of orchestrate: whatever the status was, it is FAILED
OuterHandler(status) == "FAILED"

\* the index pipeline (GraphRAG CLI, Gemini fallback or dummy) writes its files.
\* An exception of the generation is caught by the pipeline's own handler; one
\* that escapes run_dummy_pipeline (outcome "raised") reaches the outermost
\* handler, which sets FAILED and writes no marker.
Generate(i, outcome) ==
    /\ runs[i].pc = "generate"
    /\ runDirs' = IF outcome = "raised" THEN runDirs
                  ELSE WriteDir(runDirs, runs[i].ts, {}, FilesOf(outcome))
    /\ SetRun(i, IF outcome = "raised"
                 THEN [runs[i] EXCEPT !.status = OuterHandler(runs[i].status), !.pc = "finish"]
                 ELSE [runs[i] EXCEPT !.status = "GENERATED", !.pc = "import"])
    /\ UNCHANGED <<lockPath, flock, inodeNext, latest, clock>>
    /\ UNCHANGED gvars
    /\ UNCHANGED xvars

\* the artifact files import_artifacts finds in the staging directory
StagedFiles(dirs, ts) == UNION {d.files : d \in {x \in dirs : x.ts = ts}}

\* import_artifacts(staging, namespace); an exception makes the run
\* IMPORT_FAILED and skips _mark.  When the staging directory is gone
\* import_artifacts raises FileNotFoundError before it reads anything, the
\* write of _FAILED raises too and the outermost handler sets FAILED.
ImportRun(i) ==
    /\ runs[i].pc = "import"
    /\ \E imp \in {import_artifacts(nodes, edges, memberships, summaries, ArtDummy,
                                    StagedFiles(runDirs, runs[i].ts), runs[i].namespace)} :
           /\ nodes' = imp.nodes
           /\ edges' = imp.edges
           /\ memberships' = imp.memberships
           /\ summaries' = imp.summaries
           /\ SetRun(i, IF ~HasDir(runDirs, runs[i].ts)
                        THEN [runs[i] EXCEPT !.status = OuterHandler("IMPORT_FAILED"),
                                             !.pc = "finish"]
                        ELSE IF imp.raised
                        THEN [runs[i] EXCEPT !.status = "IMPORT_FAILED", !.pc = "finish"]
                        ELSE [runs[i] EXCEPT !.missing = imp.missing, !.pc = "mark"])
           /\ runDirs' = IF imp.raised
                         THEN WriteMarker(runDirs, runs[i].ts, "_FAILED")
                         ELSE runDirs
    /\ UNCHANGED <<ingestLog, qdrant, subs, uuidNext, calls, settings>>
    /\ UNCHANGED <<lockPath, flock, inodeNext, latest, clock>>
    /\ UNCHANGED xvars

\* the status the import block ends with: the marker's write_text raises when
\* the staging directory was pruned meanwhile, the handler of the import block
\* sets IMPORT_FAILED, its own write_text raises again and the outermost
\* handler sets FAILED
StatusAfterMarker(dirs, ts, missing) ==
    IF HasDir(dirs, ts) THEN StatusOf(missing) ELSE OuterHandler("IMPORT_FAILED")

\* _mark (an exception of it is swallowed: marked = FALSE), then the status and
\* its marker file
Mark(i, marked) ==
    /\ runs[i].pc = "mark"
    /\ ingestLog' = IF marked
                    THEN MarkIndexed(ingestLog, runs[i].namespace, runs[i].stale_doc_ids)
                    ELSE ingestLog
    /\ \E status \in {StatusAfterMarker(runDirs, runs[i].ts, runs[i].missing)} :
           /\ SetRun(i, [runs[i] EXCEPT !.status = status, !.pc = "finish"])
           /\ runDirs' = WriteMarker(runDirs, runs[i].ts, MarkerOf(status))
    /\ UNCHANGED <<nodes, edges, memberships, summaries, qdrant, subs, uuidNext, calls, settings>>
    /\ UNCHANGED <<lockPath, flock, inodeNext, latest, clock>>
    /\ UNCHANGED xvars

\* the retention prune and the latest symlink
Finish(i, keep) ==
    /\ runs[i].pc = "finish"
    /\ runDirs' = _prune_old_runs(runDirs, keep)
    /\ latest' = IF runs[i].status \in {"SUCCESS", "PARTIAL"} THEN runs[i].ts ELSE latest
    /\ SetRun(i, [runs[i] EXCEPT !.pc = IF runs[i].lock_acquired THEN "release" ELSE "done"])
    /\ UNCHANGED <<lockPath, flock, inodeNext, clock>>
    /\ UNCHANGED gvars
    /\ UNCHANGED xvars

\* finally: flock(LOCK_UN) and close()
Release(i) ==
    /\ runs[i].pc = "release"
    /\ flock' = flock \ {runs[i].lock_handle}
    /\ SetRun(i, [runs[i] EXCEPT !.pc = "unlink"])
    /\ UNCHANGED <<lockPath, inodeNext, runDirs, latest, clock>>
    /\ UNCHANGED gvars
    /\ UNCHANGED xvars

\* finally: whatever is linked at lock_path is unlinked when its st_size is
\* below 32; the file holds a process id at most
Unlink(i) ==
    /\ runs[i].pc = "unlink"
    /\ lockPath' = 0
    /\ SetRun(i, [runs[i] EXCEPT !.pc = "done"])
    /\ UNCHANGED <<flock, inodeNext, runDirs, latest, clock>>
    /\ UNCHANGED gvars
    /\ UNCHANGED xvars

\* the NOOP return is not covered by the finally block: the lock goes when the
\* interpreter finalizes the handle, which the language leaves open: at the
\* return itself (finalized in AcquireLock) or at a later collection (this step)
Finalize(i) ==
    /\ runs[i].pc = "returned"
    /\ flock' = flock \ {runs[i].lock_handle}
    /\ SetRun(i, [runs[i] EXCEPT !.pc = "done"])
    /\ UNCHANGED <<lockPath, inodeNext, runDirs, latest, clock>>
    /\ UNCHANGED gvars
    /\ UNCHANGED xvars

---------------------------------------------------------------------------
(* ClusterService (app/services/cluster_service.py): the Louvain clusters of *)
(* a namespace, kept in memory for _ttl seconds.  Layout positions, which    *)
(* compute_if_stale writes into node properties, are not part of a row here. *)

ClusterTtl == 600          \* self._ttl
MinGrowthAbsolute == 50    \* self._min_growth_absolute
MinGrowthRatioPct == 10    \* self._min_growth_ratio = 0.1
TickSeconds == 300         \* the clock advances in steps of this many seconds
MaxNow == 1200             \* the clock stops here
MaxClusterCalls == 3       \* ClusterService calls per behaviour

\* no entry in _cache
NoResult == [oid |-> 0, generated_at |-> 0, nodes |-> 0]

InitCluster ==
    /\ clusterCache = [ns \in Namespaces |-> NoResult]
    /\ lastCounts = [ns \in Namespaces |-> -1]
    /\ now = 0
    /\ clusterCalls = <<>>
    /\ inflight = [ns \in Namespaces |-> FALSE]
    /\ tasks = <<>>
    /\ summaryTokens = [ns \in Namespaces |-> 0]
    /\ summaryWindow = [ns \in Namespaces |-> <<>>]
    /\ snapshots = <<>>
    /\ summaryLog = <<>>
    /\ streamRequests = 0

\* the rows compute_if_stale and _maybe_recompute count for a namespace
NsNodes(N, ns) == {n \in N : n.ns = ns}
NsEdges(E, ns) == {e \in E : e.ns = ns}

RECURSIVE Reach(_, _, _)
\* the nodes of V joined to S by edges of E, in either direction
Reach(S, V, E) ==
    LET T == S \cup {v \in V : \E e \in E : (e.s \in S /\ e.t = v) \/ (e.t \in S /\ e.s = v)}
    IN  IF T = S THEN S ELSE Reach(T, V, E)

\* louvain_communities(G, seed=42) is library code: a partition of the nodes of
\* G that never joins nodes of different components; the model takes the
\* components themselves
Communities(V, E) == {Reach({v}, V, E) : v \in V}

RECURSIVE SortedBySize(_)
\* sorted(communities, key=lambda c: -len(c))
SortedBySize(S) ==
    IF S = {} THEN <<>>
    ELSE LET c == CHOOSE x \in S : \A y \in S : Cardinality(y) <= Cardinality(x)
         IN  <<c>> \o SortedBySize(S \ {c})

ClusterNames == <<"c1", "c2", "c3", "c4", "c5", "c6", "c7", "c8", "c9", "c10", "c11", "c12">>

\* the membership rows of (ns, louvain) are deleted and written anew
LouvainRows(M, comms, ns) ==
    {m \in M : ~(m.ns = ns /\ m.algorithm = "louvain")}
    \cup UNION {{[node_id |-> v, cluster_id |-> ClusterNames[i], ns |-> ns,
                  algorithm |-> "louvain"] : v \in comms[i]} : i \in 1..Len(comms)}

\* the cache test of compute_if_stale: an entry younger than the TTL
CacheHit(cached, force, t) ==
    ~force /\ cached.oid # 0 /\ t - cached.generated_at < ClusterTtl

\* compute_if_stale(namespace, force): the cached object, or a new result that
\* replaces it; a new result of a graph with nodes rewrites the memberships
ComputeIfStale(ns, force, op) ==
    \E hit \in {CacheHit(clusterCache[ns], force, now)} :
    \E V \in {{n.id : n \in NsNodes(nodes, ns)}} :
    \E result \in {IF hit THEN clusterCache[ns]
                    ELSE [oid |-> Len(clusterCalls) + 1, generated_at |-> now,
                          nodes |-> Cardinality(V)]} :
        /\ clusterCache' = [clusterCache EXCEPT ![ns] = result]
        /\ memberships' = IF hit \/ V = {} THEN memberships
                          ELSE LouvainRows(memberships,
                                           SortedBySize(Communities(V, NsEdges(edges, ns))), ns)
        /\ clusterCalls' = Append(clusterCalls,
               [op |-> op, ns |-> ns, force |-> force, at |-> now,
                cached |-> clusterCache[ns], count |-> Cardinality(V), result |-> result])

\* get_clusters(namespace, force)
GetClusters(ns, force) ==
    /\ Len(clusterCalls) < MaxClusterCalls
    /\ ComputeIfStale(ns, force, "get_clusters")
    /\ UNCHANGED <<nodes, edges, summaries, ingestLog, qdrant, subs, uuidNext, calls, settings>>
    /\ UNCHANGED <<lastCounts, now, sessions, streamRequests>>
    /\ UNCHANGED zvars
    /\ UNCHANGED ovars

\* the growth test of _maybe_recompute against the count of the last recompute
GrowthExceeded(prev, count) ==
    \/ prev = -1
    \/ count - prev >= MinGrowthAbsolute
    \/ (prev # 0 /\ (count - prev) * 100 >= MinGrowthRatioPct * prev)

\* _maybe_recompute(namespace), the task graphrag_ingest starts after an ingest
\* that answered success: a forced compute_if_stale when the node count grew
MaybeRecompute(ns) ==
    /\ \E c \in 1..Len(calls) : calls[c].op = "ingest" /\ calls[c].ns = ns /\ calls[c].success
    /\ Len(clusterCalls) < MaxClusterCalls
    /\ \E count \in {Cardinality(NsNodes(nodes, ns))} :
          IF GrowthExceeded(lastCounts[ns], count)
          THEN /\ ComputeIfStale(ns, TRUE, "recompute")
               /\ lastCounts' = [lastCounts EXCEPT ![ns] = count]
          ELSE /\ clusterCalls' = Append(clusterCalls,
                      [op |-> "skip", ns |-> ns, force |-> FALSE, at |-> now,
                       cached |-> clusterCache[ns], count |-> count, result |-> clusterCache[ns]])
               /\ UNCHANGED <<clusterCache, memberships, lastCounts>>
    /\ UNCHANGED <<nodes, edges, summaries, ingestLog, qdrant, subs, uuidNext, calls, settings>>
    /\ UNCHANGED <<now, sessions, streamRequests>>
    /\ UNCHANGED zvars
    /\ UNCHANGED ovars

\* time passes
Tick ==
    /\ now + TickSeconds <= MaxNow
    /\ now' = now + TickSeconds
    /\ UNCHANGED <<sessions, streamRequests, clusterCache, lastCounts, clusterCalls>>
    /\ UNCHANGED zvars
    /\ UNCHANGED gvars
    /\ UNCHANGED ovars

---------------------------------------------------------------------------
(* ClusterService coroutines on the event loop.  A coroutine runs alone up   *)
(* to its next await; compute_if_stale awaits the session between the cache  *)
(* test and the write of the rows, _maybe_recompute between setting the      *)
(* in-flight flag and the growth test.                                       *)

MaxTasks == 2          \* coroutines suspended at the same time

\* a suspended coroutine and its locals: comms holds the communities of a
\* compute_if_stale, the cluster ids still to answer of a summarize_clusters
Task(op, ns, force, pc, at, count, comms, used) ==
    [op |-> op, ns |-> ns, force |-> force, pc |-> pc, at |-> at, count |-> count,
     comms |-> comms, used |-> used, top_terms_hash |-> {}]

TaskIds == 1..Len(tasks)

RemoveAt(q, k) == [i \in 1..(Len(q) - 1) |-> IF i < k THEN q[i] ELSE q[i + 1]]

\* the communities compute_if_stale finds for the namespace, largest first
ReadCommunities(ns) ==
    SortedBySize(Communities({n.id : n \in NsNodes(nodes, ns)}, NsEdges(edges, ns)))

CallBudget == Len(clusterCalls) + Len(tasks) < MaxClusterCalls

\* get_clusters up to its first await: the cached object, or compute_if_stale
\* entered with the graph of the namespace
BeginGetClusters(ns, force) ==
    /\ CallBudget
    /\ Len(tasks) < MaxTasks
    /\ IF CacheHit(clusterCache[ns], force, now)
       THEN /\ ComputeIfStale(ns, force, "get_clusters")
            /\ UNCHANGED tasks
       ELSE /\ tasks' = Append(tasks, Task("get_clusters", ns, force, "compute", now,
                                          Cardinality(NsNodes(nodes, ns)),
                                          ReadCommunities(ns), 0))
            /\ UNCHANGED <<clusterCache, memberships, clusterCalls>>
    /\ UNCHANGED <<nodes, edges, summaries, ingestLog, qdrant, subs, uuidNext, calls, settings>>
    /\ UNCHANGED <<lastCounts, now, sessions, streamRequests>>
    /\ UNCHANGED <<inflight, summaryTokens, summaryWindow, snapshots, summaryLog>>
    /\ UNCHANGED ovars

\* trigger_background_recompute: _maybe_recompute up to its first await
TriggerRecompute(ns) ==
    /\ \E c \in 1..Len(calls) : calls[c].op = "ingest" /\ calls[c].ns = ns /\ calls[c].success
    /\ CallBudget
    /\ Len(tasks) < MaxTasks
    /\ IF inflight[ns]
       THEN /\ clusterCalls' = Append(clusterCalls,
                   [op |-> "skip", ns |-> ns, force |-> FALSE, at |-> now,
                    cached |-> clusterCache[ns], count |-> 0, result |-> clusterCache[ns]])
            /\ UNCHANGED <<tasks, inflight>>
       ELSE /\ inflight' = [inflight EXCEPT ![ns] = TRUE]
            /\ tasks' = Append(tasks, Task("recompute", ns, TRUE, "count", now, 0, <<>>, 0))
            /\ UNCHANGED clusterCalls
    /\ UNCHANGED gvars
    /\ UNCHANGED ovars
    /\ UNCHANGED <<sessions, streamRequests, clusterCache, lastCounts, now>>
    /\ UNCHANGED <<summaryTokens, summaryWindow, snapshots, summaryLog>>

\* _maybe_recompute from the node count to the growth test: compute_if_stale
\* entered with force, or the flag cleared
CountStep(k) ==
    /\ tasks[k].pc = "count"
    /\ \E ns \in {tasks[k].ns} :
       \E count \in {Cardinality(NsNodes(nodes, ns))} :
          IF GrowthExceeded(lastCounts[ns], count)
          THEN /\ tasks' = [tasks EXCEPT ![k] = Task("recompute", ns, TRUE, "compute", now,
                                                     count, ReadCommunities(ns), 0)]
               /\ UNCHANGED <<inflight, clusterCalls>>
          ELSE /\ tasks' = RemoveAt(tasks, k)
               /\ inflight' = [inflight EXCEPT ![ns] = FALSE]
               /\ clusterCalls' = Append(clusterCalls,
                      [op |-> "skip", ns |-> ns, force |-> FALSE, at |-> now,
                       cached |-> clusterCache[ns], count |-> count, result |-> clusterCache[ns]])
    /\ UNCHANGED gvars
    /\ UNCHANGED ovars
    /\ UNCHANGED <<sessions, streamRequests, clusterCache, lastCounts, now>>
    /\ UNCHANGED <<summaryTokens, summaryWindow, snapshots, summaryLog>>

\* compute_if_stale from the communities to its return, and the rest of
\* _maybe_recompute when that is the caller
EndCompute(k) ==
    /\ tasks[k].pc = "compute"
    /\ \E t \in {tasks[k]} :
       \E result \in {[oid |-> Len(clusterCalls) + 1, generated_at |-> t.at, nodes |-> t.count]} :
          /\ memberships' = IF t.count = 0 THEN memberships
                            ELSE LouvainRows(memberships, t.comms, t.ns)
          /\ clusterCache' = [clusterCache EXCEPT ![t.ns] = result]
          /\ clusterCalls' = Append(clusterCalls,
                 [op |-> t.op, ns |-> t.ns, force |-> t.force, at |-> t.at,
                  cached |-> clusterCache[t.ns], count |-> t.count, result |-> result])
          /\ lastCounts' = IF t.op = "recompute"
                           THEN [lastCounts EXCEPT ![t.ns] = t.count] ELSE lastCounts
          /\ inflight' = IF t.op = "recompute"
                         THEN [inflight EXCEPT ![t.ns] = FALSE] ELSE inflight
    /\ tasks' = RemoveAt(tasks, k)
    /\ UNCHANGED <<nodes, edges, summaries, ingestLog, qdrant, subs, uuidNext, calls, settings>>
    /\ UNCHANGED <<now, sessions, streamRequests>>
    /\ UNCHANGED <<summaryTokens, summaryWindow, snapshots, summaryLog>>
    /\ UNCHANGED ovars

---------------------------------------------------------------------------
(* summarize_clusters.  The rate limiter and the budget test of a cluster id *)
(* run without an await; the coroutine is then suspended at the membership   *)
(* query, the summary query and the LLM call before it writes the counter.   *)

SummaryDailyTokenBudget == 20000   \* settings.CLUSTER_SUMMARY_DAILY_TOKEN_BUDGET
SummaryMaxTokensPer == 180         \* settings.CLUSTER_SUMMARY_MAX_TOKENS_PER
SummaryRateLimitPerMin == 15       \* settings.CLUSTER_SUMMARY_RATE_LIMIT_PER_MIN
SummaryWindowSeconds == 60         \* now - t < 60
DefaultSummaryTokens == 120        \* max_tokens: int = 120

\* calls[:] = [t for t in calls if now - t < 60]
PruneWindow(w, t) == SelectSeq(w, LAMBDA x : t - x < SummaryWindowSeconds)

\* the limiter lets a 16th call through
LimiterFullLate(w) == Len(w) > SummaryRateLimitPerMin

\* len(calls) >= settings.CLUSTER_SUMMARY_RATE_LIMIT_PER_MIN
LimiterFull(w) == Len(w) >= SummaryRateLimitPerMin

\* min(max_tokens, MAX_TOKENS_PER), cut to what the budget leaves after used
AllowedTokens(max_tokens, used) ==
    LET a == Min(max_tokens, SummaryMaxTokensPer)
    IN  IF used + a > SummaryDailyTokenBudget
        THEN (IF SummaryDailyTokenBudget - used > 0 THEN SummaryDailyTokenBudget - used ELSE 0)
        ELSE a

\* the nodes named by the louvain rows of cluster cid in ns
ClusterMembers(N, M, ns, cid) ==
    {n \in N : \E m \in M : /\ m.ns = ns /\ m.cluster_id = cid /\ m.algorithm = "louvain"
                              /\ m.node_id = n.id}

\* top_terms_hash: the lower-cased words of 2 to 30 characters of the member names
TopTermsHash(members) ==
    UNION {{Lower(n.name[i]) : i \in {j \in 1..Len(n.name) : n.name[j] \notin Range(Digits)}} :
              n \in members}

SummaryEvent(ev, ns, cid, tokens) ==
    [ev |-> ev, ns |-> ns, cid |-> cid, at |-> now, tokens |-> tokens]

\* the coroutine after the cluster id at the head of its list is answered
NextCid(q, k) ==
    IF Len(q[k].comms) = 1 THEN RemoveAt(q, k)
    ELSE [q EXCEPT ![k] = [@ EXCEPT !.pc = "limit", !.comms = Tail(@), !.used = 0,
                                 !.top_terms_hash = {}]]

\* summarize_clusters(namespace, cluster_ids) through its get_clusters call
BeginSummarize(ns, cids) ==
    /\ Len(tasks) < MaxTasks
    /\ ComputeIfStale(ns, FALSE, "summarize")
    /\ tasks' = Append(tasks, Task("summarize", ns, FALSE, "limit", now, 0, cids, 0))
    /\ UNCHANGED <<nodes, edges, summaries, ingestLog, qdrant, subs, uuidNext, calls, settings>>
    /\ UNCHANGED <<lastCounts, now, sessions, streamRequests>>
    /\ UNCHANGED <<inflight, summaryTokens, summaryWindow, snapshots, summaryLog>>
    /\ UNCHANGED ovars

\* one cluster id from the top of the loop to the membership query: the rate
\* limiter, then the budget test
AdmitStep(k) ==
    /\ tasks[k].op = "summarize" /\ tasks[k].pc = "limit"
    /\ \E ns \in {tasks[k].ns}, cid \in {Head(tasks[k].comms)} :
       \E w \in {PruneWindow(summaryWindow[ns], now)} :
       \E used \in {summaryTokens[ns]} :
          IF LimiterFull(w)
          THEN /\ summaryWindow' = [summaryWindow EXCEPT ![ns] = w]
               /\ tasks' = NextCid(tasks, k)
               /\ summaryLog' = Append(summaryLog, SummaryEvent("rate_limited", ns, cid, 0))
          ELSE /\ summaryWindow' = [summaryWindow EXCEPT ![ns] = Append(w, now)]
               /\ IF used >= SummaryDailyTokenBudget
                  THEN /\ tasks' = NextCid(tasks, k)
                       /\ summaryLog' = Append(summaryLog,
                                               SummaryEvent("budget_exhausted", ns, cid, 0))
                  ELSE /\ tasks' = [tasks EXCEPT ![k] = [@ EXCEPT !.pc = "llm", !.used = used]]
                       /\ summaryLog' = Append(summaryLog, SummaryEvent("admitted", ns, cid, 0))
    /\ UNCHANGED gvars
    /\ UNCHANGED ovars
    /\ UNCHANGED <<sessions, streamRequests, clusterCache, lastCounts, now, clusterCalls>>
    /\ UNCHANGED <<inflight, summaryTokens, snapshots>>

\* the same cluster id from the membership query to the LLM call: nothing more
\* for a cluster with no member or with a stored summary of the same hash, the
\* heuristic label when no LLM is configured
QueryStep(k) ==
    /\ tasks[k].op = "summarize" /\ tasks[k].pc = "llm"
    /\ \E ns \in {tasks[k].ns}, cid \in {Head(tasks[k].comms)} :
       \E members \in {ClusterMembers(nodes, memberships, ns, cid)} :
       \E row \in {[cluster_id |-> cid, ns |-> ns, algorithm |-> "louvain",
                     hash |-> TopTermsHash(members)]} :
          IF members = {}
          THEN /\ summaryLog' = Append(summaryLog, SummaryEvent("no_members", ns, cid, 0))
               /\ tasks' = NextCid(tasks, k)
               /\ UNCHANGED summaries
          ELSE IF row \in summaries
          THEN /\ summaryLog' = Append(summaryLog, SummaryEvent("cached", ns, cid, 0))
               /\ tasks' = NextCid(tasks, k)
               /\ UNCHANGED summaries
          ELSE IF ~settings.gemini
          THEN /\ summaryLog' = Append(summaryLog, SummaryEvent("fallback", ns, cid, 0))
               /\ tasks' = NextCid(tasks, k)
               /\ summaries' = summaries \cup {row}
          ELSE /\ tasks' = [tasks EXCEPT ![k] = [@ EXCEPT !.pc = "call",
                                                          !.top_terms_hash = row.hash]]
               /\ UNCHANGED <<summaries, summaryLog>>
    /\ UNCHANGED <<nodes, edges, memberships, ingestLog, qdrant, subs, uuidNext, calls, settings>>
    /\ UNCHANGED ovars
    /\ UNCHANGED <<sessions, streamRequests, clusterCache, lastCounts, now, clusterCalls>>
    /\ UNCHANGED <<inflight, summaryTokens, summaryWindow, snapshots>>

\* the return of gemini_client.summarize_cluster, or its exception, through the
\* counter update to the commit of the summary row
ReturnStep(k, llm) ==
    /\ tasks[k].op = "summarize" /\ tasks[k].pc = "call"
    /\ \E ns \in {tasks[k].ns}, cid \in {Head(tasks[k].comms)} :
       \E allowed \in {AllowedTokens(DefaultSummaryTokens, tasks[k].used)} :
          /\ summaries' = summaries \cup {[cluster_id |-> cid, ns |-> ns,
                                            algorithm |-> "louvain",
                                            hash |-> tasks[k].top_terms_hash]}
          /\ IF llm = "raised"
             THEN /\ summaryLog' = Append(summaryLog, SummaryEvent("fallback", ns, cid, 0))
                  /\ UNCHANGED summaryTokens
             ELSE /\ summaryLog' = Append(summaryLog, SummaryEvent("llm", ns, cid, allowed))
                  /\ summaryTokens' = [summaryTokens EXCEPT ![ns] = tasks[k].used + allowed]
    /\ tasks' = NextCid(tasks, k)
    /\ UNCHANGED <<nodes, edges, memberships, ingestLog, qdrant, subs, uuidNext, calls, settings>>
    /\ UNCHANGED ovars
    /\ UNCHANGED <<sessions, streamRequests, clusterCache, lastCounts, now, clusterCalls>>
    /\ UNCHANGED <<inflight, summaryWindow, snapshots>>

---------------------------------------------------------------------------
(* Snapshots (GraphRAGService.create_snapshot, diff_snapshots).  The         *)
(* modularity of the cached cluster result is a value of the Louvain library *)
(* and is not part of a row here.                                            *)

MaxSnapshots == 2      \* create_snapshot calls per behaviour

\* Counter of the cluster ids of the membership rows of ns
ClusterSizes(M, ns) ==
    [cid \in {m.cluster_id : m \in {x \in M : x.ns = ns}} |->
        Cardinality({m \in M : m.ns = ns /\ m.cluster_id = cid})]

\* select(GraphNode.id) where namespace == ns
SnapshotNodeIds(N, ns) == {n.id : n \in {x \in N : x.ns = ns}}

\* select(GraphEdge.id)
SnapshotEdgeIds(E, ns) == {e.id : e \in E}

\* create_snapshot(namespace)
CreateSnapshot(ns) ==
    /\ Len(snapshots) < MaxSnapshots
    /\ snapshots' = Append(snapshots,
           [id |-> Uuid(uuidNext + 1), ns |-> ns,
            node_count |-> Cardinality(SnapshotNodeIds(nodes, ns)),
            edge_count |-> Cardinality(SnapshotEdgeIds(edges, ns)),
            cluster_sizes |-> ClusterSizes(memberships, ns)])
    /\ uuidNext' = uuidNext + 1
    /\ UNCHANGED <<nodes, edges, memberships, summaries, ingestLog, qdrant, subs, calls, settings>>
    /\ UNCHANGED ovars
    /\ UNCHANGED <<sessions, streamRequests, clusterCache, lastCounts, now, clusterCalls>>
    /\ UNCHANGED <<inflight, tasks, summaryTokens, summaryWindow, summaryLog>>

\* diff_snapshots(a, b) of two stored snapshots
diff_snapshots(sa, sb) ==
    [delta_nodes |-> sb.node_count - sa.node_count,
     delta_edges |-> sb.edge_count - sa.edge_count]

---------------------------------------------------------------------------
(* The service *)

InitOrch ==
    /\ runs = <<>>
    /\ lockPath = 0
    /\ flock = {}
    /\ inodeNext = 0
    /\ runDirs = {}
    /\ latest = 0
    /\ clock = 0
    /\ sessions = <<>>
    /\ InitCluster

Init ==
    /\ nodes = {}
    /\ edges = {}
    /\ memberships = {}
    /\ summaries = {}
    /\ ingestLog = {}
    /\ qdrant = {}
    /\ subs = <<>>
    /\ uuidNext = 0
    /\ calls = <<>>
    /\ settings \in {[qdrant |-> FALSE, gemini |-> FALSE], [qdrant |-> TRUE, gemini |-> TRUE]}
    /\ InitOrch

Ingest ==
    \E d \in Docs, text \in Texts, ns \in Namespaces, de \in BOOLEAN, err \in BOOLEAN :
        IngestDocument(d, text, ns, de, err)

Import == \E art \in Artifacts, ns \in Namespaces : ImportArtifacts(art, ns)

Next ==
    \/ Ingest
    \/ Import
    \/ Subscribe

Spec == Init /\ [][Next]_vars

---------------------------------------------------------------------------
(* The read side: ingests whose transactions commit, and queries *)

IngestCommitted ==
    \E d \in Docs, text \in Texts, ns \in Namespaces, de \in BOOLEAN :
        IngestDocument(d, text, ns, de, FALSE)

Retrieve ==
    \E query \in Queries, top_k \in TopKs, ns \in Namespaces : HybridRetrieve(query, top_k, ns)

Path ==
    \E a \in {n.id : n \in {m \in nodes : IsEntity(m) /\ LowerName(m.name) = <<ProbeName>>}},
       b \in EntityIds(nodes), max_depth \in PathDepths, ns \in Namespaces :
        ShortestPath(a, b, max_depth, ns)

NextQuery ==
    \/ IngestCommitted
    \/ Retrieve
    \/ Path

SpecQuery == Init /\ [][NextQuery]_vars

---------------------------------------------------------------------------
(* The batch indexer: ingests that fill the ingest log, and orchestrate runs *)

InitIndex == Init /\ ~settings.qdrant

IngestForIndex ==
    \E text \in {TextB, TextC}, ns \in Namespaces : IngestDocument("d1", text, ns, TRUE, FALSE)

Start == \E ns \in Namespaces, force \in BOOLEAN, dry_run \in BOOLEAN : StartRun(ns, force, dry_run)

RunIds == 1..Len(runs)

NextIndex ==
    \/ IngestForIndex
    \/ Start
    \/ \E i \in RunIds : AcquireLock(i)
    \/ \E i \in RunIds, outcome \in PipelineOutcomes : Generate(i, outcome)
    \/ \E i \in RunIds : ImportRun(i)
    \/ \E i \in RunIds : Mark(i, TRUE)
    \/ \E i \in RunIds : Finish(i, DefaultKeep)
    \/ \E i \in RunIds : Release(i)
    \/ \E i \in RunIds : Unlink(i)
    \/ \E i \in RunIds : Finalize(i)

SpecIndex == InitIndex /\ [][NextIndex]_vars

---------------------------------------------------------------------------
(* Orchestrate runs with their keep argument and with the failures of the
   pipeline and of _mark.  keep is read by the prune alone, so its value is
   drawn there. *)

Keeps == {1, DefaultKeep}

PipelineResults == PipelineOutcomes \cup {"raised"}

IngestForRuns == \E text \in {TextB, TextC} : IngestDocument("d1", text, "teamA", TRUE, FALSE)

NextRuns ==
    \/ IngestForRuns
    \/ Start
    \/ \E i \in RunIds : AcquireLock(i)
    \/ \E i \in RunIds, outcome \in PipelineResults : Generate(i, outcome)
    \/ \E i \in RunIds : ImportRun(i)
    \/ \E i \in RunIds, marked \in BOOLEAN : Mark(i, marked)
    \/ \E i \in RunIds, keep \in Keeps : Finish(i, keep)
    \/ \E i \in RunIds : Release(i)
    \/ \E i \in RunIds : Unlink(i)
    \/ \E i \in RunIds : Finalize(i)

SpecRuns == InitIndex /\ [][NextRuns]_vars

---------------------------------------------------------------------------
(* ingest_document calls in flight together.  Every call has a session of   *)
(* its own (get_db_session); the two DELETE statements of the purge are      *)
(* executed when the call reaches them, session.add only queues a row        *)
(* (autoflush=False), select(GraphNode) reads what is committed less the     *)
(* call's own deletes, and commit() flushes the queued rows: a primary key   *)
(* held by a committed row raises IntegrityError and the transaction,        *)
(* deletes included, is rolled back.                                         *)

MaxSessions == 2

Session(d, text, ns) ==
    [doc |-> d, text |-> text, ns |-> ns, pc |-> "purge",
     delNodes |-> {}, delEdges |-> {}, look |-> <<>>]

SessionIds == 1..Len(sessions)

\* ingest_document up to the transaction of _upsert_graph_full
BeginIngest(d, text, ns) ==
    /\ Len(sessions) < MaxSessions
    /\ sessions' = Append(sessions, Session(d, text, ns))
    /\ UNCHANGED gvars
    /\ UNCHANGED ovars
    /\ UNCHANGED kvars

\* the purge: the rows the two DELETE statements match at this moment; an
\* exception of the purge is logged and the call goes on (purged = FALSE)
PurgeStep(k, purged) ==
    /\ sessions[k].pc = "purge"
    /\ sessions' = [sessions EXCEPT
           ![k].delNodes = IF purged THEN nodes \ PurgedNodes(nodes, sessions[k].doc) ELSE {},
           ![k].delEdges = IF purged THEN edges \ PurgedEdges(edges, sessions[k].doc) ELSE {},
           ![k].pc = "scan"]
    /\ UNCHANGED gvars
    /\ UNCHANGED ovars
    /\ UNCHANGED kvars

\* select(GraphNode) and the existing_lookup built from it
ScanStep(k) ==
    /\ sessions[k].pc = "scan"
    /\ \E look \in ExistingLookups(nodes \ sessions[k].delNodes, sessions[k].ns,
                                    Extracted[sessions[k].text]) :
           sessions' = [sessions EXCEPT ![k].look = look, ![k].pc = "commit"]
    /\ UNCHANGED gvars
    /\ UNCHANGED ovars
    /\ UNCHANGED kvars

\* the flush and commit, and ingest_document to its return
CommitStep(k) ==
    /\ sessions[k].pc = "commit"
    /\ CommitIngest(sessions[k].doc, sessions[k].text, sessions[k].ns, TRUE, FALSE,
                    nodes \ sessions[k].delNodes, edges \ sessions[k].delEdges,
                    sessions[k].look)
    /\ sessions' = [sessions EXCEPT ![k].pc = "done"]
    /\ UNCHANGED ovars
    /\ UNCHANGED kvars

NextRace ==
    \/ \E d \in Docs, text \in Texts : BeginIngest(d, text, "teamA")
    \/ \E k \in SessionIds, purged \in BOOLEAN : PurgeStep(k, purged)
    \/ \E k \in SessionIds : ScanStep(k)
    \/ \E k \in SessionIds : CommitStep(k)

SpecRace == InitIndex /\ [][NextRace]_vars

---------------------------------------------------------------------------
(* The ingest log over the life of one document: repeated ingests of d1 and *)
(* orchestrate runs of its namespace                                         *)

MaxLogCalls == 3

IngestForLog ==
    /\ NumCalls({"ingest"}) < MaxLogCalls
    /\ \E text \in {TextB, TextC} : IngestCall("d1", text, "teamA", TRUE, FALSE)

StartForLog == \E force \in BOOLEAN : StartRun("teamA", force, FALSE)

NextLog ==
    \/ IngestForLog
    \/ StartForLog
    \/ \E i \in RunIds : AcquireLock(i)
    \/ \E i \in RunIds, outcome \in PipelineOutcomes : Generate(i, outcome)
    \/ \E i \in RunIds : ImportRun(i)
    \/ \E i \in RunIds, marked \in BOOLEAN : Mark(i, marked)
    \/ \E i \in RunIds : Finish(i, DefaultKeep)
    \/ \E i \in RunIds : Release(i)
    \/ \E i \in RunIds : Unlink(i)
    \/ \E i \in RunIds : Finalize(i)

SpecLog == InitIndex /\ [][NextLog]_vars

---------------------------------------------------------------------------
(* The cluster cache beside the ingests that make the graph grow *)

IngestForCluster ==
    \E d \in Docs, text \in {TextB, TextC} : IngestDocument(d, text, "teamA", TRUE, FALSE)

NextCluster ==
    \/ IngestForCluster
    \/ Tick
    \/ \E force \in BOOLEAN : GetClusters("teamA", force)
    \/ MaybeRecompute("teamA")

SpecCluster == InitIndex /\ [][NextCluster]_vars

---------------------------------------------------------------------------
(* Cluster computations that overlap on the event loop *)

IngestForJobs == \E d \in Docs : IngestDocument(d, TextC, "teamA", TRUE, FALSE)

NextJobs ==
    \/ IngestForJobs
    \/ Tick
    \/ \E force \in BOOLEAN : BeginGetClusters("teamA", force)
    \/ TriggerRecompute("teamA")
    \/ \E k \in TaskIds : CountStep(k)
    \/ \E k \in TaskIds : EndCompute(k)

SpecJobs == InitIndex /\ [][NextJobs]_vars

---------------------------------------------------------------------------
(* Summarize requests that overlap, with an LLM configured *)

MaxSummarize == 2      \* summarize_clusters calls per behaviour

InitSummaries == Init /\ settings.gemini

NumSummarize == Cardinality({i \in 1..Len(clusterCalls) : clusterCalls[i].op = "summarize"})

IngestForSummaries == IngestDocument("d1", TextC, "teamA", TRUE, FALSE)

Summarize ==
    /\ NumSummarize < MaxSummarize
    /\ \E cids \in {<<"c1">>, <<"c1", "c2">>} : BeginSummarize("teamA", cids)

NextSummaries ==
    \/ IngestForSummaries
    \/ Summarize
    \/ \E k \in TaskIds : AdmitStep(k)
    \/ \E k \in TaskIds : QueryStep(k)
    \/ \E k \in TaskIds, llm \in {"ok", "raised"} : ReturnStep(k, llm)

SpecSummaries == InitSummaries /\ [][NextSummaries]_vars

---------------------------------------------------------------------------
(* The rate limiter: a request for many cluster ids, a single request after *)
(* it, and time passing in steps shorter than the window                     *)

BurstLen == 16         \* cluster ids in the long request
LimiterTick == 30      \* seconds per step of the clock
MaxLimiterNow == 60    \* the clock stops here

Burst == [i \in 1..BurstLen |-> "c1"]

IngestForLimiter == calls = <<>> /\ IngestDocument("d1", TextC, "teamA", TRUE, FALSE)

SummarizeBurst ==
    /\ calls # <<>>
    /\ tasks = <<>>
    /\ NumSummarize < MaxSummarize
    /\ \E cids \in (IF NumSummarize = 0 THEN {Burst} ELSE {<<"c1">>, <<"c2">>}) :
           BeginSummarize("teamA", cids)

Pass ==
    /\ now + LimiterTick <= MaxLimiterNow
    /\ now' = now + LimiterTick
    /\ UNCHANGED <<sessions, streamRequests, clusterCache, lastCounts, clusterCalls>>
    /\ UNCHANGED zvars
    /\ UNCHANGED gvars
    /\ UNCHANGED ovars

NextLimiter ==
    \/ IngestForLimiter
    \/ Pass
    \/ SummarizeBurst
    \/ \E k \in TaskIds : AdmitStep(k)
    \/ \E k \in TaskIds : QueryStep(k)
    \/ \E k \in TaskIds, llm \in {"ok", "raised"} : ReturnStep(k, llm)

SpecLimiter == InitSummaries /\ [][NextLimiter]_vars

---------------------------------------------------------------------------
(* Snapshots of two namespaces between ingests *)

IngestForSnapshots ==
    \E d \in Docs, text \in {TextB, TextC}, ns \in Namespaces :
        IngestDocument(d, text, ns, TRUE, FALSE)

NextSnapshots ==
    \/ IngestForSnapshots
    \/ \E ns \in Namespaces : CreateSnapshot(ns)

SpecSnapshots == InitIndex /\ [][NextSnapshots]_vars

---------------------------------------------------------------------------
(* Imports that follow one another, after an ingest or another import *)

MaxImportCalls == 3    \* ingest and import calls per behaviour

ImportedArtifacts == {ArtDummy, ArtPair, ArtPairLow}

IngestForImports ==
    /\ NumCalls({"ingest", "import"}) < MaxImportCalls
    /\ \E ns \in Namespaces : IngestCall("d1", TextC, ns, TRUE, FALSE)

ImportAgain ==
    /\ NumCalls({"ingest", "import"}) < MaxImportCalls
    /\ \E art \in ImportedArtifacts, ns \in Namespaces : ImportCall(art, ns)

NextImports ==
    \/ IngestForImports
    \/ ImportAgain

SpecImports == InitIndex /\ [][NextImports]_vars

---------------------------------------------------------------------------
(* The membership rows of two namespaces that take one document in turn *)

IngestForMembers ==
    \E text \in {TextC, TextD}, ns \in Namespaces : IngestDocument("d1", text, ns, TRUE, FALSE)

NextMembers ==
    \/ IngestForMembers
    \/ Tick
    \/ \E ns \in Namespaces, force \in BOOLEAN : GetClusters(ns, force)
    \/ \E ns \in Namespaces : MaybeRecompute(ns)

SpecMembers == InitIndex /\ [][NextMembers]_vars

---------------------------------------------------------------------------
(* Properties of the store after ingest and import calls *)

\* the step appends a call of operation op
CallStep(op) == Len(calls') = Len(calls) + 1 /\ calls'[Len(calls')].op = op

\* the step is an ingest that repeats the doc_id and namespace of the call before it
ReingestStep ==
    /\ CallStep("ingest")
    /\ calls # <<>>
    /\ calls[Len(calls)].op = "ingest"
    /\ calls[Len(calls)].doc = calls'[Len(calls')].doc
    /\ calls[Len(calls)].ns = calls'[Len(calls')].ns

\* C1: a second ingest_document call with the same doc_id, the same namespace and
\* identical text (compute_layout=false) leaves the node count, the edge count and
\* the set of entity node ids as they were after the first call.  Stated for two
\* calls whose transactions both commit.
C1_IngestIdempotent ==
    [][(/\ ReingestStep
        /\ calls[Len(calls)].hash = calls'[Len(calls')].hash
        /\ calls[Len(calls)].committed
        /\ calls'[Len(calls')].committed)
       => /\ Cardinality(nodes') = Cardinality(nodes)
          /\ Cardinality(edges') = Cardinality(edges)
          /\ EntityIds(nodes') = EntityIds(nodes)]_vars

\* what does hold of such a repeat: the nodes and the entity ids stay, the edges
\* never shrink
C1_RepeatKeepsNodes ==
    [][(/\ ReingestStep
        /\ calls[Len(calls)].hash = calls'[Len(calls')].hash
        /\ calls[Len(calls)].committed
        /\ calls'[Len(calls')].committed)
       => /\ Cardinality(nodes') = Cardinality(nodes)
          /\ EntityIds(nodes') = EntityIds(nodes)
          /\ Cardinality(edges') >= Cardinality(edges)]_vars

EndpointExists(id, ns) == \E n \in nodes : n.id = id /\ n.pns = ns

\* C2: after any sequence of ingest_document and import_artifacts calls, every
\* persisted edge has a source_id and a target_id that are ids of existing nodes
\* in the edge's namespace.
C2_EdgeEndpointsExist ==
    \A e \in edges : EndpointExists(e.s, e.ns) /\ EndpointExists(e.t, e.ns)

OnlyIngests == \A i \in 1..Len(calls) : calls[i].op = "ingest"

\* C4: after any sequence of ingest_document calls a namespace never holds two
\* entity nodes whose names are equal ignoring letter case.
C4_EntityDedup ==
    OnlyIngests =>
        \A n \in nodes : \A m \in nodes :
            (/\ IsEntity(n) /\ IsEntity(m)
             /\ n.pns = m.pns
             /\ LowerName(n.name) = LowerName(m.name)) => n.id = m.id

\* C5: ingest_document returns success=true, enqueues node_added/edges_added
\* events and upserts into the vector index only if its transaction committed;
\* a call whose transaction is rolled back persists no node and no edge.
C5_EffectsOnlyIfCommitted ==
    [][CallStep("ingest") =>
          /\ calls'[Len(calls')].success => calls'[Len(calls')].committed
          /\ calls'[Len(calls')].events > 0 => calls'[Len(calls')].committed
          /\ calls'[Len(calls')].vector_upsert => calls'[Len(calls')].committed
          /\ ~calls'[Len(calls')].committed => nodes' = nodes /\ edges' = edges]_vars

\* the part of C5 the rollback does keep: a rolled-back call persists nothing
C5_RollbackPersistsNothing ==
    [][(CallStep("ingest") /\ ~calls'[Len(calls')].committed)
          => nodes' = nodes /\ edges' = edges]_vars

DocScoped(id, d) == LikeChunk(id, d) \/ LikeSection(id, d)

\* the chunk and section nodes ingest_document creates for doc d from text
NodesFromText(d, text, ns, emb) ==
    {ChunkNode(d, i - 1, Chunked[text].chunks[i], ns, emb) :
        i \in 1..Len(Chunked[text].chunks)}
    \cup {SectionNode(d, Chunked[text].section_map[i].section_id,
                      Chunked[text].section_map[i].section_title, ns) :
             i \in 1..Len(Chunked[text].section_map)}

PurgeLaw(c) ==
    /\ {n \in nodes' : DocScoped(n.id, c.doc)}
         = NodesFromText(c.doc, TextOfHash(c.hash), c.ns, c.emb /\ settings.gemini)
    /\ \A e \in edges' :
          /\ DocScoped(e.s, c.doc) => e.s \in NodeIds(nodes')
          /\ DocScoped(e.t, c.doc) => e.t \in NodeIds(nodes')

\* C8: after ingest_document(D, text1) followed by ingest_document(D, text2) in
\* the same namespace, both answered with success, the nodes with id prefix
\* D::chunk:: or D::section:: are exactly those created from text2 and no edge
\* has an endpoint that is a removed chunk or section node of D.
C8_ReingestPurge ==
    [][(/\ ReingestStep
        /\ calls[Len(calls)].success
        /\ calls'[Len(calls')].success) => PurgeLaw(calls'[Len(calls')])]_vars

\* the purge law for a second call whose transaction commits
C8_PurgeWhenCommitted ==
    [][(ReingestStep /\ calls'[Len(calls')].committed) => PurgeLaw(calls'[Len(calls')])]_vars

---------------------------------------------------------------------------
(* Properties of the queries *)

InNamespace(resp) ==
    /\ \A n \in resp.nodes : n.ns = resp.ns
    /\ \A e \in resp.edges : e.ns = resp.ns

\* C6: hybrid_retrieve scoped to a namespace returns no node and no edge that
\* belongs to another namespace, whatever documents were ingested into the two
\* (so the node id sets returned for one query in two namespaces are disjoint).
C6_RetrieveIsolation ==
    \A i \in 1..Len(calls) : calls[i].op = "retrieve" => InNamespace(calls[i])

\* the same isolation when no vector index is configured (QDRANT_URL empty, the
\* default)
C6_IsolationWithoutVectorIndex ==
    ~settings.qdrant => \A i \in 1..Len(calls) : calls[i].op = "retrieve" => InNamespace(calls[i])

Joined(a, b, E) == \E e \in E : (e.s = a /\ e.t = b) \/ (e.s = b /\ e.t = a)

\* C7: shortest_path(source, target, namespace=N) never returns a path that
\* passes through a node of another namespace or uses an edge of another
\* namespace.
C7_PathInNamespace ==
    [][(CallStep("path") /\ calls'[Len(calls')].source # calls'[Len(calls')].target) =>
          LET c == calls'[Len(calls')] IN
          /\ \A i \in 1..Len(c.path) : \A n \in nodes : n.id = c.path[i] => n.ns = c.ns
          /\ \A i \in 1..(Len(c.path) - 1) :
                 Joined(c.path[i], c.path[i + 1], {e \in edges : e.ns = c.ns})]_vars

PathJoinsEndpoints(c) ==
    /\ c.path[1] = c.source
    /\ Last(c.path) = c.target
    /\ \A i \in 1..(Len(c.path) - 1) : Joined(c.path[i], c.path[i + 1], edges)

\* C9: for a # b and every max_depth, shortest_path(a, b, max_depth) returns the
\* empty list or a sequence that starts at a, ends at b, has at most
\* max_depth + 1 nodes and whose adjacent pairs are joined by a persisted edge.
C9_PathLaw ==
    [][(CallStep("path") /\ calls'[Len(calls')].source # calls'[Len(calls')].target) =>
          LET c == calls'[Len(calls')] IN
          \/ c.path = <<>>
          \/ PathJoinsEndpoints(c) /\ Len(c.path) <= c.max_depth + 1]_vars

\* the path law without its length bound
C9_PathLawUnbounded ==
    [][(CallStep("path") /\ calls'[Len(calls')].source # calls'[Len(calls')].target) =>
          LET c == calls'[Len(calls')] IN
          c.path = <<>> \/ PathJoinsEndpoints(c)]_vars

---------------------------------------------------------------------------
(* Properties of orchestrate runs *)

\* a run that is past _acquire_lock and has not yet reached the lock release
InProgress(r) == r.pc \in {"generate", "import", "mark", "finish", "release"}

\* C3: at any moment at most one orchestrate run is past lock acquisition and
\* not yet finished, whatever the runs' force values
C3_SingleRunInProgress ==
    \A i, j \in RunIds : (InProgress(runs[i]) /\ InProgress(runs[j])) => i = j

\* the same for runs started with force=False only: two such runs are never in
\* progress together among two invocations; with three, the unlink of the
\* finally block lets a third run lock a fresh inode beside the second
ExclusiveWithoutForce ==
    \A i, j \in RunIds :
        (InProgress(runs[i]) /\ InProgress(runs[j]) /\ ~runs[i].force /\ ~runs[j].force) => i = j

\* the statuses of a run that got as far as the import
ImportStatuses == {"SUCCESS", "PARTIAL", "FAILED", "IMPORT_FAILED"}

\* the step in which run i takes one of the statuses S
Concludes(i, S) == runs[i].status \notin S /\ runs'[i].status \in S

\* the rows run i captured as stale are indexed and stamped
StaleRowsIndexed(r, log) ==
    \A row \in log :
        (row.ns = r.namespace /\ row.id \in r.stale_doc_ids) =>
            (row.status = "indexed" /\ row.indexed_at)

\* C10: when a non-dry run for a namespace with a stale row ends SUCCESS,
\* PARTIAL, FAILED or IMPORT_FAILED, every row that was stale when the run
\* started is indexed and has a last_indexed_at value
C10_StaleRowsIndexed ==
    [][\A i \in RunIds :
          (Concludes(i, ImportStatuses) /\ ~runs[i].dry_run /\ runs[i].stale_doc_ids # {})
              => StaleRowsIndexed(runs'[i], ingestLog')]_vars

\* the same for the runs whose import returned
C10_IndexedWhenImported ==
    [][\A i \in RunIds :
          (Concludes(i, ImportStatuses \ {"IMPORT_FAILED"}) /\ ~runs[i].dry_run
             /\ runs[i].stale_doc_ids # {})
              => StaleRowsIndexed(runs'[i], ingestLog')]_vars

\* the rows whose status is indexed after the step and was not before it
NewlyIndexed == {row \in ingestLog' : row.status = "indexed"
                                      /\ ~\E old \in ingestLog : old.id = row.id /\ old.status = "indexed"}

\* C11: an Ingest Log row is given status indexed only by an orchestrate run
\* that completes SUCCESS or PARTIAL; a run that ends FAILED or IMPORT_FAILED
\* changes no row's status
C11_IndexedOnlyBySuccess ==
    [][/\ NewlyIndexed # {} => \E i \in RunIds : Concludes(i, {"SUCCESS", "PARTIAL"})
       /\ (\E i \in RunIds : Concludes(i, {"FAILED", "IMPORT_FAILED"}))
              => {[id |-> r.id, status |-> r.status] : r \in ingestLog'}
                   = {[id |-> r.id, status |-> r.status] : r \in ingestLog}]_vars

\* what the code keeps of it: a row becomes indexed only in the _mark step of a
\* run whose import returned, and an IMPORT_FAILED run changes no row
C11_IndexedOnlyByMark ==
    [][/\ NewlyIndexed # {} => \E i \in RunIds : Concludes(i, {"SUCCESS", "PARTIAL", "FAILED"})
       /\ (\E i \in RunIds : Concludes(i, {"IMPORT_FAILED"})) => ingestLog' = ingestLog]_vars

\* a call that has returned to its caller
Returned(r) == r.pc \in {"returned", "done"}

\* the lock taken by run i is still held through run i's own handle
HoldsLock(i) ==
    /\ runs[i].lock_acquired
    /\ runs[i].lock_handle \in flock
    /\ ~\E j \in RunIds : j > i /\ runs[j].lock_acquired /\ runs[j].lock_handle = runs[i].lock_handle

C12_ReleasedByFinally ==
    \A i \in RunIds : (Returned(runs[i]) /\ runs[i].status # "NOOP") => ~HoldsLock(i)

TerminalMarkers == {"_SUCCESS", "_PARTIAL", "_FAILED"}

\* the terminal markers found in the run directory named after ts
MarkersOf(dirs, ts) == UNION {d.markers \cap TerminalMarkers : d \in {x \in dirs : x.ts = ts}}

\* the step in which call i returns to its caller
Returns(i) == ~Returned(runs[i]) /\ Returned(runs'[i])

\* C13: when a non-dry run that created its run directory returns SUCCESS,
\* PARTIAL, FAILED or IMPORT_FAILED, the directory contains exactly one terminal
\* marker, the one of the returned status (_FAILED for FAILED and IMPORT_FAILED)
C13_MarkerMatchesStatus ==
    [][\A i \in RunIds :
          (Returns(i) /\ runs'[i].status \in ImportStatuses)
              => /\ HasDir(runDirs', runs[i].ts)
                 /\ MarkersOf(runDirs', runs[i].ts) = {MarkerOf(runs'[i].status)}]_vars

\* what the code keeps of it: at the step in which a run takes the status
\* SUCCESS, PARTIAL or IMPORT_FAILED its directory holds that status' marker and
\* no other terminal marker
C13_MarkerWhenConcluded ==
    [][\A i \in RunIds :
          Concludes(i, {"SUCCESS", "PARTIAL", "IMPORT_FAILED"})
              => /\ HasDir(runDirs', runs[i].ts)
                 /\ MarkersOf(runDirs', runs[i].ts) = {MarkerOf(runs'[i].status)}]_vars

\* the runs that are past the latest-symlink update with SUCCESS or PARTIAL
Succeeded == {i \in RunIds : /\ runs[i].status \in {"SUCCESS", "PARTIAL"}
                             /\ runs[i].pc \in {"release", "unlink", "done"}}

\* C14: artifacts/latest, once created, points to the directory of the most
\* recent run that ended SUCCESS or PARTIAL, and that directory exists: the
\* retention prune never removes the directory latest points to
C14_LatestPointsToLiveRun ==
    latest # 0 =>
        /\ HasDir(runDirs, latest)
        /\ \E i \in Succeeded : runs[i].ts = latest /\ \A j \in Succeeded : runs[j].ts <= latest

\* what the code keeps of it: latest names the run directory of some run that
\* ended SUCCESS or PARTIAL
C14_LatestNamesSucceededRun ==
    latest # 0 => \E i \in Succeeded : runs[i].ts = latest

\* C15: an orchestrate call that returns LOCKED or NOOP creates no run
\* directory and writes no marker file: no step of such a call, from its start
\* to its return, changes the run directories
C15_NoStagingForLockedOrNoop ==
    [][/\ Len(runs') > Len(runs) => runDirs' = runDirs
       /\ \A i \in RunIds :
             (runs'[i] # runs[i] /\ runs'[i].status \in {"LOCKED", "NOOP"})
                 => runDirs' = runDirs]_vars

\* a NOOP call and a LOCKED call have both returned
C15_Witness ==
    \E i, j \in RunIds : /\ runs[i].status = "NOOP"
                         /\ runs[j].status = "LOCKED" /\ Returned(runs[j])

ReturnStatuses == {"DRY_RUN", "NOOP", "LOCKED", "SUCCESS", "PARTIAL", "FAILED", "IMPORT_FAILED"}

\* C16: every orchestrate call returns one of DRY_RUN, NOOP, LOCKED, SUCCESS,
\* PARTIAL, FAILED, IMPORT_FAILED, never UNKNOWN or GENERATED, whichever of
\* pipeline generation, import, document marking or marker writing fails
C16_ReturnsTerminalStatus ==
    \A i \in RunIds : Returned(runs[i]) => runs[i].status \in ReturnStatuses

\* a call has returned after an exception that only the outermost handler took:
\* FAILED with no terminal marker in its directory
C16_Witness ==
    \E i \in RunIds : /\ Returned(runs[i]) /\ runs[i].status = "FAILED"
                      /\ MarkersOf(runDirs, runs[i].ts) = {}

---------------------------------------------------------------------------
(* Properties of ingest_document calls in flight together *)

\* the chunk and section rows of document d in the store
DocNodes(N, d) == N \ PurgedNodes(N, d)

\* the chunk and section rows call k adds
Produced(k) ==
    DocNodes(NewNodes(sessions[k].doc, sessions[k].ns, FALSE, Chunked[sessions[k].text],
                      Extracted[sessions[k].text],
                      EntityIdsOf(Extracted[sessions[k].text], <<>>, 0)),
             sessions[k].doc)

\* the two calls made for a doc_id, in one namespace, have both finished
SameDocFinished(k, l) ==
    /\ k # l
    /\ sessions[k].doc = sessions[l].doc /\ sessions[k].ns = sessions[l].ns
    /\ sessions[k].pc = "done" /\ sessions[l].pc = "done"
    /\ \A m \in SessionIds \ {k, l} : sessions[m].doc # sessions[k].doc

NewNames(k) ==
    {Lower(Extracted[sessions[k].text][i]) : i \in 1..Len(Extracted[sessions[k].text])}
        \ DOMAIN sessions[k].look

\* the transaction of the call made for document d was committed
CommittedFor(d) == \E c \in 1..Len(calls) : calls[c].doc = d /\ calls[c].committed

\* two calls for different doc_ids in one namespace, both finished and committed
OtherDocCommitted(k, l) ==
    /\ sessions[k].doc # sessions[l].doc /\ sessions[k].ns = sessions[l].ns
    /\ sessions[k].pc = "done" /\ sessions[l].pc = "done"
    /\ CommittedFor(sessions[k].doc) /\ CommittedFor(sessions[l].doc)

---------------------------------------------------------------------------
(* Properties of the ingest log *)

\* the step is the return of an ingest_document call / a step of an orchestrate run
IngestStep == Len(calls') > Len(calls) /\ calls'[Len(calls')].op = "ingest"
RunStep == runs' # runs

\* C19: the only status changes of an Ingest Log row are: created with status
\* ingested on the first ingest of its doc_id; set to stale, from any status,
\* when ingest_document stores a content hash different from the recorded one;
\* set from stale to indexed by an orchestrate run.  Re-ingesting identical
\* content never changes the status.
C19_IngestLogTransitions ==
    [][/\ \A old \in ingestLog : \E new \in ingestLog' : new.id = old.id
       /\ \A new \in ingestLog' :
             IF \E old \in ingestLog : old.id = new.id
             THEN \A old \in {o \in ingestLog : o.id = new.id} :
                     /\ old.hash # new.hash => IngestStep /\ new.status = "stale"
                     /\ old.status # new.status =>
                           \/ IngestStep /\ new.status = "stale" /\ old.hash # new.hash
                           \/ RunStep /\ old.status = "stale" /\ new.status = "indexed"
             ELSE IngestStep /\ new.status = "ingested"]_vars

\* a row went through ingested, stale and indexed, and a further ingest with
\* another hash has set it back to stale
C19_Witness ==
    \E r \in ingestLog : r.status = "stale" /\ r.indexed_at

---------------------------------------------------------------------------
(* Properties of the cluster cache *)

\* the last ClusterService call, when the step is a get_clusters call
IsGetClusters == Len(clusterCalls') > Len(clusterCalls)
                    /\ clusterCalls'[Len(clusterCalls')].op = "get_clusters"
LastCall == clusterCalls'[Len(clusterCalls')]

Abs(x) == IF x < 0 THEN -x ELSE x

\* a cached result that is not stale: younger than the TTL and computed against
\* a node count within both growth thresholds of the current one
Fresh(cached, t, count) ==
    /\ cached.oid # 0
    /\ t - cached.generated_at < ClusterTtl
    /\ Abs(count - cached.nodes) < MinGrowthAbsolute
    /\ \/ count = cached.nodes
       \/ Abs(count - cached.nodes) * 100 < MinGrowthRatioPct * cached.nodes

\* the call answered the cached object and left the cache entry as it was
ServedFromCache(c) == c.result = c.cached /\ clusterCache'[c.ns] = c.cached

\* the call computed a new result and put it in the cache
Recomputed(c) == c.result.oid = Len(clusterCalls') /\ clusterCache'[c.ns] = c.result

\* C20: get_clusters(ns, force=false) returns the cached result object
\* unchanged exactly when that result is not stale (younger than the TTL of
\* 600 s and computed against a node count that differs from the current one
\* by less than 50 and less than 10%); when the result is stale, and whenever
\* force=true, it recomputes and replaces the cache entry
C20_CacheServedIffFresh ==
    [][IsGetClusters =>
          IF ~LastCall.force /\ Fresh(LastCall.cached, LastCall.at, LastCall.count)
          THEN ServedFromCache(LastCall)
          ELSE Recomputed(LastCall)]_vars

\* what the code keeps of it: the cached object is returned exactly when
\* force=false and the entry is younger than the TTL, whatever the node count
C20_CacheServedWithinTtl ==
    [][IsGetClusters =>
          IF CacheHit(LastCall.cached, LastCall.force, LastCall.at)
          THEN ServedFromCache(LastCall)
          ELSE Recomputed(LastCall)]_vars

\* the rows of (ns, louvain) name every node of the namespace exactly once and
\* no other node
IsPartition(M, N, ns) ==
    \E rows \in {{m \in M : m.ns = ns /\ m.algorithm = "louvain"}} :
        /\ \A n \in NsNodes(N, ns) : Cardinality({m \in rows : m.node_id = n.id}) = 1
        /\ \A m \in rows : \E n \in NsNodes(N, ns) : n.id = m.node_id

\* C21: after a get_clusters call that recomputed the clusters of a namespace,
\* the membership rows of (namespace, louvain) form a set partition of the
\* nodes of the namespace: every node has one row, no row names another node
C21_MembershipPartition ==
    [][(IsGetClusters /\ Recomputed(LastCall))
          => IsPartition(memberships', nodes', LastCall.ns)]_vars

\* C21 for the recomputes that found a node in the namespace
C21_PartitionOfNonEmptyGraph ==
    [][(IsGetClusters /\ Recomputed(LastCall) /\ LastCall.count > 0)
          => IsPartition(memberships', nodes', LastCall.ns)]_vars

\* a recompute has written the rows of a namespace with nodes
C21_Witness ==
    \E i \in 1..Len(clusterCalls) :
        /\ clusterCalls[i].result.oid = i /\ clusterCalls[i].count > 1
        /\ \E m \in memberships : m.ns = clusterCalls[i].ns /\ m.algorithm = "louvain"

---------------------------------------------------------------------------
(* Properties of overlapping cluster computations *)

\* the coroutines that are inside compute_if_stale for ns with a graph that has
\* nodes: the ones that run louvain_communities and rewrite the rows
Computing(ns) ==
    {k \in TaskIds : tasks[k].ns = ns /\ tasks[k].pc = "compute" /\ tasks[k].count > 0}

\* C22: at most one Louvain recompute per (namespace, louvain) is in progress
\* at any time, whichever of trigger_background_recompute, get_clusters with
\* force and get_clusters on an expired cache started it
C22_OneRecomputeInProgress ==
    \A ns \in Namespaces : Cardinality(Computing(ns)) <= 1

\* C22 for the recomputes started by trigger_background_recompute alone
C22_OneBackgroundRecompute ==
    \A ns \in Namespaces :
        Cardinality({k \in TaskIds : tasks[k].ns = ns /\ tasks[k].op = "recompute"}) <= 1

---------------------------------------------------------------------------
(* Properties of summarize_clusters *)

RECURSIVE Granted(_, _)
\* the tokens granted to the LLM calls of a namespace
Granted(log, ns) ==
    IF log = <<>> THEN 0
    ELSE (IF Head(log).ev = "llm" /\ Head(log).ns = ns THEN Head(log).tokens ELSE 0)
         + Granted(Tail(log), ns)

\* C23: overlapping summarize_clusters calls of one namespace do not interleave
\* their budget test and counter update: the counter holds every increment
\* and the tokens granted stay within the daily budget
C23_BudgetCounterExact ==
    \A ns \in Namespaces :
        /\ summaryTokens[ns] = Granted(summaryLog, ns)
        /\ Granted(summaryLog, ns) <= SummaryDailyTokenBudget

\* what is left of C23: the counter never exceeds the tokens granted, and with
\* the default settings the tokens granted stay within the budget
C23_CounterNeverAhead ==
    \A ns \in Namespaces :
        /\ summaryTokens[ns] <= Granted(summaryLog, ns)
        /\ Granted(summaryLog, ns) <= SummaryDailyTokenBudget

\* the entries of the log that got past the rate limiter
PastLimiter(log, ns) ==
    {i \in 1..Len(log) : log[i].ns = ns /\ log[i].ev \in {"admitted", "budget_exhausted"}}

\* no window of 60 seconds holds more than the limit of them
WindowBound ==
    \A ns \in Namespaces : \A i \in PastLimiter(summaryLog, ns) :
        Cardinality({j \in PastLimiter(summaryLog, ns) :
                        j <= i /\ summaryLog[i].at - summaryLog[j].at < SummaryWindowSeconds})
            <= SummaryRateLimitPerMin

\* the step answers a cluster id with the rate-limit placeholder
RateLimited ==
    /\ Len(summaryLog') = Len(summaryLog) + 1
    /\ summaryLog'[Len(summaryLog')].ev = "rate_limited"

\* the coroutines that go on to the queries and the LLM call
Proceeding(q) == Cardinality({k \in 1..Len(q) : q[k].pc \in {"llm", "call"}})

\* C24: per namespace and window of 60 seconds, at most
\* CLUSTER_SUMMARY_RATE_LIMIT_PER_MIN requested cluster ids get past the rate
\* limiter of summarize_clusters; a further one is answered with the placeholder
\* and causes no LLM call, no token consumption and no stored summary
C24_RateLimit ==
    /\ []WindowBound
    /\ [][RateLimited => /\ UNCHANGED <<summaries, summaryTokens, memberships>>
                         /\ Proceeding(tasks') = Proceeding(tasks)]_vars

\* a cluster id was turned away, and a later one got through once the window
\* had moved on
C24_Witness ==
    \E i, j \in 1..Len(summaryLog) :
        /\ i < j
        /\ summaryLog[i].ev = "rate_limited"
        /\ summaryLog[j].ev = "admitted" /\ summaryLog[j].ns = summaryLog[i].ns
        /\ Cardinality(PastLimiter(summaryLog, summaryLog[i].ns)) > SummaryRateLimitPerMin

---------------------------------------------------------------------------
(* Properties of snapshots *)

SnapshotStep == Len(snapshots') = Len(snapshots) + 1

LastSnapshot == snapshots'[Len(snapshots')]

\* C25: create_snapshot(namespace=N) records the numbers of nodes and of edges
\* that belong to N, whatever other namespaces hold, so that the diff of two
\* snapshots of N, the difference of their counts, is the change in N
C25_SnapshotCountsNamespace ==
    [][SnapshotStep =>
          /\ LastSnapshot.node_count = Cardinality(NsNodes(nodes, LastSnapshot.ns))
          /\ LastSnapshot.edge_count = Cardinality(NsEdges(edges, LastSnapshot.ns))]_vars

\* C25 for the nodes, and what the edge count is instead: every edge stored
C25_NodeCountOfNamespace ==
    [][SnapshotStep =>
          /\ LastSnapshot.node_count = Cardinality(NsNodes(nodes, LastSnapshot.ns))
          /\ LastSnapshot.edge_count = Cardinality(edges)]_vars

---------------------------------------------------------------------------
(* Properties of repeated imports *)

ArtOfName(name) == CHOOSE art \in ImportedArtifacts : ArtName(art) = name

\* the step is an import of the artifact set and namespace of the call before it
RepeatedImport ==
    /\ CallStep("import")
    /\ calls # <<>>
    /\ calls[Len(calls)].op = "import"
    /\ calls[Len(calls)].art = calls'[Len(calls')].art
    /\ calls[Len(calls)].ns = calls'[Len(calls')].ns

\* the edges of the namespace that a relationship record names
EdgesOfRecord(E, rec, ns) ==
    {e \in E : /\ e.ns = ns /\ e.s = ArtId(rec.src_id) /\ e.t = ArtId(rec.dst_id)
               /\ e.rel = rec.relationship_type}

\* after the import every relationship of the file has the larger of the
\* confidence it had and the confidence that came in
ConfidenceIsMax(c) ==
    \A rec \in Range(ArtOfName(c.art).relationships) :
        /\ EdgesOfRecord(edges', rec, c.ns) # {}
        /\ \A e \in EdgesOfRecord(edges', rec, c.ns) :
               /\ e.conf >= rec.weight
               /\ \A f \in EdgesOfRecord(edges, rec, c.ns) : f.id = e.id => e.conf >= f.conf
               /\ \/ e.conf = rec.weight
                  \/ \E f \in EdgesOfRecord(edges, rec, c.ns) : f.id = e.id /\ e.conf = f.conf

\* C26: a second import of the same artifact set into the same namespace
\* creates no node, edge, membership or summary row (entities_new = 0,
\* relationships_new = 0), and an import leaves every relationship with the
\* maximum of its existing and its incoming confidence
C26_ImportIdempotent ==
    [][/\ RepeatedImport =>
             /\ nodes' = nodes /\ edges' = edges
             /\ memberships' = memberships /\ summaries' = summaries
             /\ calls'[Len(calls')].raised = calls[Len(calls)].raised
             /\ ~calls'[Len(calls')].raised =>
                    /\ calls'[Len(calls')].entities_new = 0
                    /\ calls'[Len(calls')].relationships_new = 0
                    /\ calls'[Len(calls')].community_memberships_added = 0
                    /\ calls'[Len(calls')].community_reports_added = 0
       /\ (CallStep("import") /\ ~calls'[Len(calls')].raised)
             => ConfidenceIsMax(calls'[Len(calls')])]_vars

\* an artifact set was imported twice in a row into a namespace that held an
\* ingested document, the first time creating rows
C26_Witness ==
    /\ Len(calls) = 3 /\ calls[1].op = "ingest"
    /\ \E i \in {2} :
          /\ calls[i].op = "import" /\ calls[i + 1].op = "import"
          /\ calls[i].art = calls[i + 1].art /\ calls[i].ns = calls[i + 1].ns
          /\ calls[i].ns = calls[1].ns
          /\ ~calls[i].raised /\ ~calls[i + 1].raised
          /\ calls[i].relationships_new > 0 /\ calls[i].community_memberships_added > 0

---------------------------------------------------------------------------
(* Properties of the event stream *)

\* the events the broadcast of an ingest call builds: one node_added per chunk
\* of the text, then edges_added when the call created an edge
EventsOfCall(c) ==
    BroadcastEvents([i \in 1..Len(Chunked[TextOfHash(c.hash)]) |-> ChunkId(c.doc, i - 1)],
                    c.created_edges, c.doc)

\* C27: at an ingest whose transaction committed, every client that has
\* connected to the stream holds a registered queue, and every registered queue
\* receives, in order, one node_added per chunk node and then edges_added iff
\* an edge was created, an event reaching a queue of 100 being dropped for
\* that queue alone
C27_SubscribersReceive ==
    [][(CallStep("ingest") /\ calls'[Len(calls')].committed) =>
          /\ Len(subs') = streamRequests
          /\ \A k \in 1..Len(subs') :
                 subs'[k] = PutAll(subs[k], EventsOfCall(calls'[Len(calls')]))]_vars

\* what the code does instead: no queue is ever registered, so no ingest
\* enqueues an event
C27_NoQueueRegistered ==
    /\ subs = <<>>
    /\ \A i \in 1..Len(calls) : calls[i].op = "ingest" => calls[i].events = 0

---------------------------------------------------------------------------
(* Properties of namespace isolation *)

\* the namespaces other than ns
OtherNamespaces(ns) == Namespaces \ {ns}

\* C28: ingest_document(D, namespace=B) leaves the nodes and the edges of
\* every other namespace as they were, also when D was ingested earlier into
\* another namespace
C28_OtherNamespacesUnchanged ==
    [][CallStep("ingest") =>
          \A ns \in OtherNamespaces(calls'[Len(calls')].ns) :
              /\ NsNodes(nodes', ns) = NsNodes(nodes, ns)
              /\ NsEdges(edges', ns) = NsEdges(edges, ns)]_vars

\* what the code keeps: the rows of another namespace that an ingest of D
\* removes are D's chunk and section nodes and the edges that touch them
C28_OnlyDocRowsRemoved ==
    [][CallStep("ingest") =>
          \A ns \in OtherNamespaces(calls'[Len(calls')].ns) :
              /\ NsNodes(nodes', ns) \subseteq NsNodes(nodes, ns)
              /\ NsEdges(edges', ns) \subseteq NsEdges(edges, ns)
              /\ \A n \in NsNodes(nodes, ns) \ NsNodes(nodes', ns) :
                     PurgeNodeMatch(n.id, calls'[Len(calls')].doc)
              /\ \A e \in NsEdges(edges, ns) \ NsEdges(edges', ns) :
                     PurgeEdgeMatch(e, calls'[Len(calls')].doc)]_vars

---------------------------------------------------------------------------
(* Properties of the ingest log across orchestrate runs *)

\* the rows run r read at its start whose status was one of S and whose hash
\* was not replaced since are indexed in log
ReadRowsIndexed(r, S, log) ==
    \A row \in r.rows :
        row.status \in S =>
            \A cur \in log :
                (cur.id = row.id /\ cur.ns = row.ns /\ cur.hash = row.hash)
                    => cur.status = "indexed"

\* C29: when a non-dry orchestrate run for a namespace ends SUCCESS, every
\* document the ingest log of the namespace held when the run started, also one
\* ingested once and never changed (status ingested), is marked indexed
C29_LoggedDocsIndexed ==
    [][\A i \in RunIds :
          (Concludes(i, {"SUCCESS"}) /\ ~runs[i].dry_run)
              => ReadRowsIndexed(runs'[i], {"ingested", "stale", "indexed"}, ingestLog')]_vars

\* what the code keeps: the rows that were stale or indexed when the run
\* started are indexed when it ends SUCCESS
C29_StaleDocsIndexed ==
    [][\A i \in RunIds :
          (Concludes(i, {"SUCCESS"}) /\ ~runs[i].dry_run)
              => ReadRowsIndexed(runs'[i], {"stale", "indexed"}, ingestLog')]_vars

\* the step in which run i passes its _mark
MarkStep(i) == runs[i].pc = "mark" /\ runs'[i].pc # "mark"

\* the rows of log that run r captured as stale and whose hash was replaced
\* since, still stale
ChangedSinceCapture(r, log) ==
    {cur \in log : /\ cur.status = "stale"
                    /\ \E row \in r.rows : /\ row.status = "stale"
                                            /\ row.id = cur.id /\ row.ns = cur.ns
                                            /\ row.hash # cur.hash}

\* C30: a document that a run captured as stale and for which ingest_document
\* stored a new content hash while the run was in progress is still stale when
\* the run has marked its documents: the change the run did not see is not
\* recorded as indexed
C30_UnseenChangeStaysStale ==
    [][\A i \in RunIds :
          MarkStep(i) =>
              \A cur \in ChangedSinceCapture(runs[i], ingestLog) :
                  \E nxt \in ingestLog' :
                      nxt.id = cur.id /\ nxt.ns = cur.ns /\ nxt.status = "stale"]_vars

\* what the code keeps: _mark changes only rows whose id the run captured as
\* stale, and only in its own namespace
C30_MarkTouchesCapturedIds ==
    [][\A i \in RunIds :
          MarkStep(i) =>
              \A cur \in ingestLog :
                  (cur.ns # runs[i].namespace \/ cur.id \notin runs[i].stale_doc_ids)
                      => cur \in ingestLog']_vars

===========================================================================
